---- MODULE Spec2Model ----
(***************************************************************************)
(* A model of the subsystems of the log analyzer                           *)
(* (packages/core/src/log-analyzer.ts) that work on the oracle's answers   *)
(* and around its calls:                                                   *)
(*                                                                         *)
(*   - the chunk splitter (LogAnalyzer.splitIntoChunks),                   *)
(*   - the bounded worker pool (parallelMap) that drives the per-chunk     *)
(*     oracle calls of analyzeLogFileInChunks, and the sequential chunk    *)
(*     loop of analyzeLogBuffer,                                           *)
(*   - the exact-line matcher (LogAnalyzer.findExactLineMatches),          *)
(*   - the response parser (LogAnalyzer.parseAnalysisResponse) and the     *)
(*     list extraction (LogAnalyzer.extractListItems),                     *)
(*   - the consolidation of chunk results (aggregateChunkResults and       *)
(*     mergeChunkResultsManually),                                         *)
(*   - the cross-file similarity (findSimilarities, with                   *)
(*     parseSimilaritiesResponse and findSimilaritiesManually).            *)
(*                                                                         *)
(* Text is modelled as TLA+ strings handled character by character         *)
(* (Len, SubSeq and \o), so that splitting, joining, trimming and the      *)
(* regular expressions are computed and not assumed.                       *)
(*                                                                         *)
(* There is one specification per subsystem: SpecSplit, SpecPool (and      *)
(* SpecPoolAny, with every parallelChunks the constructor accepts),        *)
(* SpecMatch, SpecExtract, SpecParse, SpecMerge, SpecSimilar, SpecStream   *)
(* (the streamed exchanges of analyzeLogContent on the shared session) and *)
(* SpecCalls (the session's life and the public analysis calls with their  *)
(* progress events).  A specification leaves the variables of the other    *)
(* subsystems at their idle values.                                        *)
(***************************************************************************)
EXTENDS Integers, Sequences, FiniteSets, TLC

VARIABLES
    \* ---- chunk splitter ----
    content,        \* the text read from the file or buffer
    chunkSize,      \* the byte threshold S (CHUNK_SIZE in the source)
    maxLines,       \* the line threshold L (MAX_LINES_PER_CHUNK in the source)
    chunks,         \* the value returned by splitIntoChunks
    splitPc,        \* "input" before the call, "done" after it
    \* ---- chunked analysis: parallelMap and the sequential chunk loop ----
    mode,           \* "file": analyzeLogFileInChunks, "buffer": analyzeLogBuffer
    concurrency,    \* options.parallelChunks, the limit P
    callerPc,       \* where the analysis call stands
    currentIndex,   \* parallelMap's shared counter; the loop index i of the buffer path
    results,        \* parallelMap's results array; chunkResults of the buffer path
    workerPc,       \* per pool worker: "await", "resolved" or "rejected"
    calls,          \* oracle requests sent and not yet settled
    completedChunks,\* the completedChunks counter of analyzeLogFileInChunks
    aggregateArgs,  \* the arguments aggregateChunkResults was invoked with, in order
    responses,      \* history: per chunk, how the oracle settled its request
    settleOrder,    \* history: the chunks in the order their requests settled
    claimed,        \* history: the <<worker, index>> pairs claimed from currentIndex
    written,        \* history: the <<worker, slot>> pairs written into results
    \* ---- exact-line matcher ----
    fileContents,   \* the { content, filename } entries handed to findExactLineMatches
    lineMap,        \* findExactLineMatches' Map of normalized line -> entry
    filesRead,      \* how many files the loop over the files has processed
    exactMatches,   \* the value returned by findExactLineMatches
    matchPc,        \* "input" during the call, "done" after it
    \* ---- response parser ----
    sectionsSent,   \* history: the sections the response text was written from, in order
    parseInput,     \* the content handed to parseAnalysisResponse
    parseResult,    \* the value returned by parseAnalysisResponse
    parsePc,        \* "input" before the call, "done" after it
    \* ---- list extraction ----
    sectionText,    \* the text handed to extractListItems
    listItems,      \* the value returned by extractListItems
    extractPc,      \* "input" before the call, "done" after it
    \* ---- consolidation of chunk results ----
    chunkResults,   \* the chunks handed to aggregateChunkResults
    promptsSent,    \* how many consolidation requests were sent to the oracle
    aggregateResult,\* the value aggregateChunkResults resolved with
    aggregatePc,    \* "input", "await", "resolved" or "rejected"
    viaFallback,    \* history: the result came from mergeChunkResultsManually
    \* ---- cross-file similarity fallback ----
    fileResults,    \* the per-file results handed to findSimilarities
    similarityResult, \* the value findSimilarities resolved with
    similarPc,      \* "input", "await", "resolved" or "rejected"
    similarVia,     \* history: which branch of findSimilarities produced the result
    \* ---- streamed exchanges of analyzeLogContent ----
    exchangePc,     \* per call of analyzeLogContent: "start", "await", "returned", "failed"
    fullResponse,   \* per call: the text its handler accumulated from the deltas
    subscribers,    \* the calls whose handler is subscribed to the session, in order
    deltasSent,     \* history: the deltas the session streamed
    streamingEvents,\* the 'streaming' events emitted, in order
    terminalResponse, \* per call: what sendAndWait settled with
    parserCalls,    \* per call: the texts handed to parseAnalysisResponse
    \* ---- session and public analysis calls ----
    clientPc,       \* "new", "starting", "creating", "ready", "destroying", "stopped"
    session,        \* this.session: "null" or "open"
    program,        \* the steps of the analysis call made last, in program order
    pc,             \* the step whose request the call awaits (0: no call is awaiting)
    progressEvents, \* the 'progress' events emitted during the call made last
    requestsSent,   \* how many requests the call made last sent to the oracle
    charCount,      \* charCount of the handler of the awaiting analyzeLogContent
    deltasSeen,     \* how many message deltas were streamed during the call
    callOutcome,    \* "none", "pending", "returned", "not initialized", "failed"
    callOp,         \* history: the operation called last
    hadSession      \* history: this.session existed when it was called

splitVars == <<content, chunkSize, maxLines, chunks, splitPc>>

poolVars == <<mode, concurrency, callerPc, currentIndex, results, workerPc, calls,
              completedChunks, aggregateArgs, responses, settleOrder, claimed, written>>

matchVars == <<fileContents, lineMap, filesRead, exactMatches, matchPc>>

parseVars == <<sectionsSent, parseInput, parseResult, parsePc>>

extractVars == <<sectionText, listItems, extractPc>>

mergeVars == <<chunkResults, promptsSent, aggregateResult, aggregatePc, viaFallback>>

similarVars == <<fileResults, similarityResult, similarPc, similarVia>>

streamVars == <<exchangePc, fullResponse, subscribers, deltasSent, streamingEvents,
               terminalResponse, parserCalls>>

callVars == <<clientPc, session, program, pc, progressEvents, requestsSent, charCount,
             deltasSeen, callOutcome, callOp, hadSession>>

vars == <<splitVars, poolVars, matchVars, parseVars, extractVars, mergeVars, similarVars,
         streamVars,
         callVars>>

(***************************************************************************)
(* Generic helpers                                                         *)
(***************************************************************************)
Min(a, b) == IF a <= b THEN a ELSE b

Max(a, b) == IF a >= b THEN a ELSE b

\* The i-th character of a string, as a one-character string.
CharAt(s, i) == SubSeq(s, i, i)

\* s from its i-th character on (JavaScript's s.slice(i-1)).
Drop(s, i) == IF i > Len(s) THEN "" ELSE SubSeq(s, i, Len(s))

LF == "\n"

\* All strings of length at most n over the characters of `alphabet`.
RECURSIVE TextsUpTo(_, _)
TextsUpTo(alphabet, n) ==
    IF n = 0 THEN {""}
    ELSE LET shorter == TextsUpTo(alphabet, n - 1)
         IN  shorter \cup {t \o c : t \in shorter, c \in alphabet}

(***************************************************************************)
(* String.prototype.split("\n") and Array.prototype.join("\n")             *)
(***************************************************************************)
\* The positions of the line-feeds of `text`.
IndexesOfLF(text) == {i \in 1..Len(text) : CharAt(text, i) = LF}

\* text.split("\n"): the pieces between consecutive line-feeds, one more
\* than there are line-feeds; "" splits to <<"">>.
SplitLines(text) ==
    LET lfs     == IndexesOfLF(text)
        \* the position of the k-th line-feed; 0 before the first, and the
        \* position after the text for the one after the last
        lfAt(k) == IF k = 0 THEN 0
                   ELSE IF k > Cardinality(lfs) THEN Len(text) + 1
                   ELSE CHOOSE i \in lfs : Cardinality({j \in lfs : j <= i}) = k
    IN  [k \in 1..(Cardinality(lfs) + 1) |-> SubSeq(text, lfAt(k - 1) + 1, lfAt(k) - 1)]

\* parts.join("\n"), for the parts from `from` to `to`: a range joins as its
\* two halves joined by a line-feed.
RECURSIVE JoinRange(_, _, _)
JoinRange(parts, from, to) ==
    IF from > to THEN ""
    ELSE IF from = to THEN parts[from]
    ELSE LET mid == (from + to) \div 2
         IN  JoinRange(parts, from, mid) \o LF \o JoinRange(parts, mid + 1, to)

\* parts.join("\n"): the empty array joins to "".
JoinLines(parts) == JoinRange(parts, 1, Len(parts))

(***************************************************************************)
(* The chunk splitter: LogAnalyzer.splitIntoChunks.                        *)
(* The source compares against the module constants CHUNK_SIZE and         *)
(* MAX_LINES_PER_CHUNK; here the two thresholds are parameters so that the *)
(* loop can be exercised on short texts.                                   *)
(***************************************************************************)
CHUNK_SIZE == 500 * 1024

MAX_LINES_PER_CHUNK == 5000

\* The accumulator before the loop: chunks, currentChunk, currentSize and
\* chunkStartLine (0-indexed, as in the source).
SplitStart ==
    [chunks |-> <<>>, currentChunk |-> <<>>, currentSize |-> 0, chunkStartLine |-> 0]

\* const lineSize = line.length + 1
LineSize(line) == Len(line) + 1

\* The test that closes the running chunk before `line` is taken.
MutShouldCloseLate(st, lineSize, S, L) ==
    (st.currentSize + lineSize > S \/ Len(st.currentChunk) > L)
    /\ Len(st.currentChunk) > 0

ShouldClose(st, lineSize, S, L) ==
    (st.currentSize + lineSize > S \/ Len(st.currentChunk) >= L)
    /\ Len(st.currentChunk) > 0

\* The descriptor pushed for the running chunk; `end` is 1-indexed inclusive.
MutChunkOfZeroIndexed(currentChunk, chunkStartLine, end) ==
    [content   |-> JoinLines(currentChunk),
     lineRange |-> [start |-> chunkStartLine, end |-> end]]

ChunkOf(currentChunk, chunkStartLine, end) ==
    [content   |-> JoinLines(currentChunk),
     lineRange |-> [start |-> chunkStartLine + 1, end |-> end]]

\* The chunk that is open after a close: it holds the line that did not fit.
MutReopenedEmpty(line) == <<>>

Reopened(line) == <<line>>

\* One iteration of the for loop, for the 0-indexed line number i.
SplitStep(st, lines, i, S, L) ==
    LET line     == lines[i + 1]
        lineSize == LineSize(line)
    IN  IF ShouldClose(st, lineSize, S, L)
        THEN [chunks         |-> Append(st.chunks,
                                        ChunkOf(st.currentChunk, st.chunkStartLine, i)),
              currentChunk   |-> Reopened(line),
              currentSize    |-> lineSize,
              chunkStartLine |-> i]
        ELSE [st EXCEPT !.currentChunk = Append(st.currentChunk, line),
                        !.currentSize  = st.currentSize + lineSize]

RECURSIVE SplitLoop(_, _, _, _, _)
SplitLoop(st, lines, i, S, L) ==
    IF i >= Len(lines) THEN st
    ELSE SplitLoop(SplitStep(st, lines, i, S, L), lines, i + 1, S, L)

splitIntoChunks(lines, S, L) ==
    LET st == SplitLoop(SplitStart, lines, 0, S, L)
    IN  IF Len(st.currentChunk) > 0
        THEN Append(st.chunks, ChunkOf(st.currentChunk, st.chunkStartLine, Len(lines)))
        ELSE st.chunks

(***************************************************************************)
(* Chunked analysis.                                                       *)
(*                                                                         *)
(* analyzeLogFileInChunks hands the chunks to parallelMap, whose workers   *)
(* claim indices from the shared counter currentIndex and await one        *)
(* analyzeLogContent call (one oracle request) per claimed chunk.          *)
(* analyzeLogBuffer walks the chunks in a sequential loop.  Both call      *)
(* aggregateChunkResults once every chunk has a result.                    *)
(*                                                                         *)
(* JavaScript runs each continuation to its next await without             *)
(* interleaving, so one action covers a worker's step from the settling of *)
(* its request to its next request (or its exit).                          *)
(***************************************************************************)
DEFAULT_PARALLEL_CHUNKS == 3

\* A slot of `new Array(items.length)` that nothing was written to.
Hole == [chunkId |-> -1, lineRange |-> [start |-> 0, end |-> 0], response |-> ""]

\* Array.from({ length: Math.min(concurrency, items.length) }, ...): a
\* negative length gives the empty array.
MutNumWorkersUnbounded(P, N) == N

NumWorkers(P, N) == Max(0, Min(P, N))

\* The ChunkAnalysisResult built by the callback for the 0-indexed chunk i.
\* patterns, anomalies and rootCauses are parseAnalysisResponse of the
\* terminal response's content, so `response` stands for the three of them.
ChunkResult(i, chunk, responseContent) ==
    [chunkId |-> i, lineRange |-> chunk.lineRange, response |-> responseContent]

\* results[index] = ...: the 1-indexed position written for 0-indexed `index`;
\* `done` is the number of results produced so far, this one included.
MutResultSlotByCompletion(index, done) == done

ResultSlot(index, done) == index + 1

\* if (!response || !response.data.content) throw ...
HasContent(outcome) == outcome.kind = "resolve" /\ outcome.content # ""

\* The request a worker sends for the chunk it claimed.
Call(w, index) == [worker |-> w, chunk |-> index]

CallOf(w) == CHOOSE c \in calls : c.worker = w

\* How a worker's promise settles when its loop is left: fulfilled when the
\* loop condition fails, rejected when the awaited callback threw (nothing in
\* the worker catches).
MutWorkerExitSwallowsError(ok) == "resolved"

WorkerExit(ok) == IF ok THEN "resolved" ELSE "rejected"

\* The worker pool is built: every worker runs to its first await in turn.
StartChunkedFile ==
    /\ mode = "file"
    /\ callerPc = "start"
    /\ chunks' = splitIntoChunks(SplitLines(content), chunkSize, maxLines)
    /\ splitPc' = "done"
    /\ LET N  == Len(chunks')
           nw == NumWorkers(concurrency, N)
       IN  /\ results' = [i \in 1..N |-> Hole]
           /\ workerPc' = [w \in 1..nw |-> IF w <= N THEN "await" ELSE "resolved"]
           /\ currentIndex' = Min(nw, N)
           /\ calls' = {Call(w, w - 1) : w \in 1..Min(nw, N)}
           /\ claimed' = {<<w, w - 1>> : w \in 1..Min(nw, N)}
           /\ responses' = [i \in 1..N |-> [kind |-> "none", content |-> ""]]
    /\ callerPc' = "awaitPool"
    /\ UNCHANGED <<content, chunkSize, maxLines, mode, concurrency, completedChunks,
                   aggregateArgs, settleOrder, written, matchVars,
                   parseVars, extractVars, mergeVars, similarVars,
                   streamVars,
                   callVars>>

\* The request of worker w settles with `outcome`; the worker stores the
\* result and claims the next index, or leaves its loop, or rejects.
WorkerSettles(w, outcome) ==
    /\ mode = "file"
    /\ w \in DOMAIN workerPc
    /\ workerPc[w] = "await"
    /\ \E c \in calls : c.worker = w
    /\ LET call  == CallOf(w)
           index == call.chunk
           ok    == HasContent(outcome)
           done  == completedChunks + 1
           slot  == ResultSlot(index, done)
           more  == ok /\ currentIndex < Len(chunks)
       IN  /\ responses' = [responses EXCEPT ![index + 1] = outcome]
           /\ settleOrder' = Append(settleOrder, index)
           /\ completedChunks' = IF ok THEN done ELSE completedChunks
           /\ results' = IF ok
                         THEN [results EXCEPT
                                 ![slot] = ChunkResult(index, chunks[index + 1],
                                                       outcome.content)]
                         ELSE results
           /\ written' = IF ok THEN written \cup {<<w, slot - 1>>} ELSE written
           /\ currentIndex' = IF more THEN currentIndex + 1 ELSE currentIndex
           /\ calls' = (calls \ {call})
                          \cup (IF more THEN {Call(w, currentIndex)} ELSE {})
           /\ claimed' = IF more THEN claimed \cup {<<w, currentIndex>>} ELSE claimed
           /\ workerPc' = [workerPc EXCEPT
                             ![w] = IF more THEN "await" ELSE WorkerExit(ok)]
    /\ UNCHANGED <<splitVars, mode, concurrency, callerPc, aggregateArgs, matchVars,
                   parseVars, extractVars, mergeVars, similarVars,
                   streamVars,
                   callVars>>

\* The oracle answers the request of worker w with content.
ChunkSucceeds(w, text) ==
    /\ text # ""
    /\ WorkerSettles(w, [kind |-> "resolve", content |-> text])

\* sendAndWait resolves without content: analyzeLogContent throws.
ChunkHasNoContent(w) == WorkerSettles(w, [kind |-> "resolve", content |-> ""])

\* sendAndWait rejects.
ChunkRejects(w) == WorkerSettles(w, [kind |-> "reject", content |-> ""])

\* await Promise.all(workers) is fulfilled: every worker left its loop.  The
\* caller goes on to aggregateChunkResults(chunkResults).
PoolResolves ==
    /\ mode = "file"
    /\ callerPc = "awaitPool"
    /\ \A w \in DOMAIN workerPc : workerPc[w] = "resolved"
    /\ aggregateArgs' = Append(aggregateArgs, results)
    /\ callerPc' = "aggregating"
    /\ UNCHANGED <<splitVars, mode, concurrency, currentIndex, results, workerPc, calls,
                   completedChunks, responses, settleOrder, claimed, written, matchVars,
                   parseVars, extractVars, mergeVars, similarVars,
                   streamVars,
                   callVars>>

\* await Promise.all(workers) is rejected by the first worker that rejects;
\* analyzeLogFileInChunks rejects with it.  The other workers run on.
PoolRejects ==
    /\ mode = "file"
    /\ callerPc = "awaitPool"
    /\ \E w \in DOMAIN workerPc : workerPc[w] = "rejected"
    /\ callerPc' = "failed"
    /\ UNCHANGED <<splitVars, mode, concurrency, currentIndex, results, workerPc, calls,
                   completedChunks, aggregateArgs, responses, settleOrder, claimed,
                   written, matchVars,
                   parseVars, extractVars, mergeVars, similarVars,
                   streamVars,
                   callVars>>

\* analyzeLogBuffer, content larger than the size threshold: the loop sends
\* the request of chunk 0.
StartChunkedBuffer ==
    /\ mode = "buffer"
    /\ callerPc = "start"
    /\ Len(content) > chunkSize
    /\ chunks' = splitIntoChunks(SplitLines(content), chunkSize, maxLines)
    /\ splitPc' = "done"
    /\ results' = <<>>
    /\ currentIndex' = 0
    /\ calls' = {Call(0, 0)}
    /\ claimed' = {<<0, 0>>}
    /\ responses' = [i \in 1..Len(chunks') |-> [kind |-> "none", content |-> ""]]
    /\ callerPc' = "awaitChunk"
    /\ UNCHANGED <<content, chunkSize, maxLines, mode, concurrency, workerPc,
                   completedChunks, aggregateArgs, settleOrder, written, matchVars,
                   parseVars, extractVars, mergeVars, similarVars,
                   streamVars,
                   callVars>>

\* The request of chunk i settles; the loop pushes the result and sends the
\* next request, or calls aggregateChunkResults after the last chunk, or the
\* exception of analyzeLogContent leaves analyzeLogBuffer.
BufferSettles(outcome) ==
    /\ mode = "buffer"
    /\ callerPc = "awaitChunk"
    /\ calls # {}
    /\ LET i    == currentIndex
           ok   == HasContent(outcome)
           next == Append(results, ChunkResult(i, chunks[i + 1], outcome.content))
           last == i + 1 >= Len(chunks)
       IN  /\ responses' = [responses EXCEPT ![i + 1] = outcome]
           /\ settleOrder' = Append(settleOrder, i)
           /\ results' = IF ok THEN next ELSE results
           /\ written' = IF ok THEN written \cup {<<0, Len(next) - 1>>} ELSE written
           /\ currentIndex' = IF ok THEN i + 1 ELSE i
           /\ calls' = IF ok /\ ~last THEN {Call(0, i + 1)} ELSE {}
           /\ claimed' = IF ok /\ ~last THEN claimed \cup {<<0, i + 1>>} ELSE claimed
           /\ aggregateArgs' = IF ok /\ last THEN Append(aggregateArgs, next)
                               ELSE aggregateArgs
           /\ callerPc' = IF ~ok THEN "failed"
                          ELSE IF last THEN "aggregating" ELSE "awaitChunk"
    /\ UNCHANGED <<splitVars, mode, concurrency, workerPc, completedChunks, matchVars,
                   parseVars, extractVars, mergeVars, similarVars,
                   streamVars,
                   callVars>>

BufferChunkSucceeds(text) ==
    /\ text # ""
    /\ BufferSettles([kind |-> "resolve", content |-> text])

BufferChunkHasNoContent == BufferSettles([kind |-> "resolve", content |-> ""])

BufferChunkRejects == BufferSettles([kind |-> "reject", content |-> ""])

\* aggregateChunkResults returns (directly for one chunk, else from the
\* consolidation response or the manual merge): the analysis call returns.
AggregateReturns ==
    /\ callerPc = "aggregating"
    /\ callerPc' = "returned"
    /\ UNCHANGED <<splitVars, mode, concurrency, currentIndex, results, workerPc, calls,
                   completedChunks, aggregateArgs, responses, settleOrder, claimed,
                   written, matchVars,
                   parseVars, extractVars, mergeVars, similarVars,
                   streamVars,
                   callVars>>

\* The consolidation request of aggregateChunkResults (two or more chunks)
\* rejects: the exception leaves the analysis call.
AggregateRejects ==
    /\ callerPc = "aggregating"
    /\ Len(aggregateArgs[Len(aggregateArgs)]) # 1
    /\ callerPc' = "failed"
    /\ UNCHANGED <<splitVars, mode, concurrency, currentIndex, results, workerPc, calls,
                   completedChunks, aggregateArgs, responses, settleOrder, claimed,
                   written, matchVars,
                   parseVars, extractVars, mergeVars, similarVars,
                   streamVars,
                   callVars>>

IdlePool ==
    /\ mode = "none"
    /\ concurrency = DEFAULT_PARALLEL_CHUNKS
    /\ callerPc = "idle"
    /\ currentIndex = 0
    /\ results = <<>>
    /\ workerPc = <<>>
    /\ calls = {}
    /\ completedChunks = 0
    /\ aggregateArgs = <<>>
    /\ responses = <<>>
    /\ settleOrder = <<>>
    /\ claimed = {}
    /\ written = {}

(***************************************************************************)
(* Character classes and string functions used by the exact-line matcher   *)
(***************************************************************************)
DigitChars == {"0", "1", "2", "3", "4", "5", "6", "7", "8", "9"}

UpperCaseLetters == "ABCDEFGHIJKLMNOPQRSTUVWXYZ"

LowerCaseLetters == "abcdefghijklmnopqrstuvwxyz"

UpperChars == {CharAt(UpperCaseLetters, i) : i \in 1..26}

LowerChars == {CharAt(LowerCaseLetters, i) : i \in 1..26}

\* [0-9a-f] under the i flag
HexChars == DigitChars \cup {"a", "b", "c", "d", "e", "f", "A", "B", "C", "D", "E", "F"}

\* \w
WordChars == DigitChars \cup UpperChars \cup LowerChars \cup {"_"}

\* \s, and what String.prototype.trim removes (a line holds no line-feed)
SpaceChars == {" ", "\t", "\r"}

LowerOf ==
    [c \in UpperChars |->
        CharAt(LowerCaseLetters, CHOOSE i \in 1..26 : CharAt(UpperCaseLetters, i) = c)]

\* String.prototype.toLowerCase
RECURSIVE ToLowerCase(_)
ToLowerCase(s) ==
    IF s = "" THEN ""
    ELSE LET c == CharAt(s, 1)
         IN  (IF c \in UpperChars THEN LowerOf[c] ELSE c) \o ToLowerCase(Drop(s, 2))

\* The character of s at position i is in `class` (false past the end).
CharIn(s, i, class) == i >= 1 /\ i <= Len(s) /\ CharAt(s, i) \in class

\* The n characters of s from position i on are all in `class`.
AllIn(s, i, n, class) == \A k \in i..(i + n - 1) : CharIn(s, k, class)

\* The length of the longest run of `class` characters of s starting at i.
RECURSIVE RunLength(_, _, _)
RunLength(s, i, class) ==
    IF CharIn(s, i, class) THEN 1 + RunLength(s, i + 1, class) ELSE 0

\* s has the text t at position i, compared without regard to case.
HasAt(s, i, t) ==
    /\ i + Len(t) - 1 <= Len(s)
    /\ ToLowerCase(SubSeq(s, i, i + Len(t) - 1)) = ToLowerCase(t)

\* \b holds before position i, where a word character starts.
WordStartsAt(s, i) == ~CharIn(s, i - 1, WordChars)

\* \b holds after position i, where a word character ends.
WordEndsAt(s, i) == ~CharIn(s, i + 1, WordChars)

\* String.prototype.trim
RECURSIVE TrimStart(_)
TrimStart(s) == IF CharIn(s, 1, SpaceChars) THEN TrimStart(Drop(s, 2)) ELSE s

RECURSIVE TrimEnd(_)
TrimEnd(s) ==
    IF CharIn(s, Len(s), SpaceChars) THEN TrimEnd(SubSeq(s, 1, Len(s) - 1)) ELSE s

Trim(s) == TrimEnd(TrimStart(s))

\* /^\d+$/.test(s)
IsAllDigits(s) == Len(s) >= 1 /\ AllIn(s, 1, Len(s), DigitChars)

(***************************************************************************)
(* normalizePatterns of findExactLineMatches.  A pattern is matched at a   *)
(* position by an operator giving the position after the match, or 0 when  *)
(* it does not match there.  Every quantified part is followed only by     *)
(* optional parts, by a character outside its class or by \b, so the       *)
(* greedy match is the regular expression's match.                         *)
(***************************************************************************)
\* \d{4}-\d{2}-\d{2}[T ]\d{2}:\d{2}:\d{2} at position i (19 characters)
DateTimeAt(s, i) ==
    /\ AllIn(s, i, 4, DigitChars)
    /\ CharIn(s, i + 4, {"-"})
    /\ AllIn(s, i + 5, 2, DigitChars)
    /\ CharIn(s, i + 7, {"-"})
    /\ AllIn(s, i + 8, 2, DigitChars)
    /\ CharIn(s, i + 10, {"T", "t", " "})
    /\ AllIn(s, i + 11, 2, DigitChars)
    /\ CharIn(s, i + 13, {":"})
    /\ AllIn(s, i + 14, 2, DigitChars)
    /\ CharIn(s, i + 16, {":"})
    /\ AllIn(s, i + 17, 2, DigitChars)

\* \d{2}:\d{2}:\d{2} at position i (8 characters)
ClockAt(s, i) ==
    /\ AllIn(s, i, 2, DigitChars)
    /\ CharIn(s, i + 2, {":"})
    /\ AllIn(s, i + 3, 2, DigitChars)
    /\ CharIn(s, i + 5, {":"})
    /\ AllIn(s, i + 6, 2, DigitChars)

\* [.,]?\d* from position i: the position after it
AfterFraction(s, i) ==
    LET j == IF CharIn(s, i, {".", ","}) THEN i + 1 ELSE i
    IN  j + RunLength(s, j, DigitChars)

\* Z? under the i flag
AfterZulu(s, i) == IF CharIn(s, i, {"Z", "z"}) THEN i + 1 ELSE i

AfterSpaces(s, i) == i + RunLength(s, i, SpaceChars)

\* /^\d{4}-\d{2}-\d{2}[T ]\d{2}:\d{2}:\d{2}[.,]?\d*Z?\s*/i
IsoTimestampEnd(s) ==
    IF DateTimeAt(s, 1) THEN AfterSpaces(s, AfterZulu(s, AfterFraction(s, 20))) ELSE 0

\* /^\[\d{4}-\d{2}-\d{2}[T ]\d{2}:\d{2}:\d{2}[.,]?\d*Z?\]\s*/i
BracketedTimestampEnd(s) ==
    IF CharIn(s, 1, {"["}) /\ DateTimeAt(s, 2)
    THEN LET j == AfterZulu(s, AfterFraction(s, 21))
         IN  IF CharIn(s, j, {"]"}) THEN AfterSpaces(s, j + 1) ELSE 0
    ELSE 0

\* /^\d{2}\/\d{2}\/\d{4}\s+\d{2}:\d{2}:\d{2}\s*/i
SlashDateEnd(s) ==
    IF /\ AllIn(s, 1, 2, DigitChars)
       /\ CharIn(s, 3, {"/"})
       /\ AllIn(s, 4, 2, DigitChars)
       /\ CharIn(s, 6, {"/"})
       /\ AllIn(s, 7, 4, DigitChars)
       /\ CharIn(s, 11, SpaceChars)
    THEN LET j == AfterSpaces(s, 11)
         IN  IF ClockAt(s, j) THEN AfterSpaces(s, j + 8) ELSE 0
    ELSE 0

\* /^\d{2}:\d{2}:\d{2}[.,]?\d*\s*/i
ClockEnd(s) == IF ClockAt(s, 1) THEN AfterSpaces(s, AfterFraction(s, 9)) ELSE 0

\* /\b[0-9a-f]{8}-[0-9a-f]{4}-[0-9a-f]{4}-[0-9a-f]{4}-[0-9a-f]{12}\b/gi at i
UuidEnd(s, i) ==
    IF /\ WordStartsAt(s, i)
       /\ AllIn(s, i, 8, HexChars)
       /\ CharIn(s, i + 8, {"-"})
       /\ AllIn(s, i + 9, 4, HexChars)
       /\ CharIn(s, i + 13, {"-"})
       /\ AllIn(s, i + 14, 4, HexChars)
       /\ CharIn(s, i + 18, {"-"})
       /\ AllIn(s, i + 19, 4, HexChars)
       /\ CharIn(s, i + 23, {"-"})
       /\ AllIn(s, i + 24, 12, HexChars)
       /\ WordEndsAt(s, i + 35)
    THEN i + 36 ELSE 0

\* /\b0x[0-9a-f]+\b/gi at i
HexLiteralEnd(s, i) ==
    IF WordStartsAt(s, i) /\ HasAt(s, i, "0x")
    THEN LET n == RunLength(s, i + 2, HexChars)
         IN  IF n >= 1 /\ WordEndsAt(s, i + 1 + n) THEN i + 2 + n ELSE 0
    ELSE 0

\* /\bpid[:\s]*\d+\b/gi and /\btid[:\s]*\d+\b/gi at i, for tag "pid" or "tid"
TaggedIdEnd(s, i, tag) ==
    IF WordStartsAt(s, i) /\ HasAt(s, i, tag)
    THEN LET j == i + 3 + RunLength(s, i + 3, SpaceChars \cup {":"})
             n == RunLength(s, j, DigitChars)
         IN  IF n >= 1 /\ WordEndsAt(s, j + n - 1) THEN j + n ELSE 0
    ELSE 0

\* /\[\d+\]/g at i
BracketedNumberEnd(s, i) ==
    IF CharIn(s, i, {"["})
    THEN LET n == RunLength(s, i + 1, DigitChars)
         IN  IF n >= 1 /\ CharIn(s, i + 1 + n, {"]"}) THEN i + 2 + n ELSE 0
    ELSE 0

\* The anchored patterns, in the order of the array.
AnchoredPatterns == <<"iso", "bracketed", "slashdate", "clock">>

\* The global patterns, in the order of the array.
GlobalPatterns == <<"uuid", "hex", "pid", "tid", "bracketnum">>

AnchoredEnd(pattern, s) ==
    CASE pattern = "iso"       -> IsoTimestampEnd(s)
      [] pattern = "bracketed" -> BracketedTimestampEnd(s)
      [] pattern = "slashdate" -> SlashDateEnd(s)
      [] pattern = "clock"     -> ClockEnd(s)

GlobalEnd(pattern, s, i) ==
    CASE pattern = "uuid"       -> UuidEnd(s, i)
      [] pattern = "hex"        -> HexLiteralEnd(s, i)
      [] pattern = "pid"        -> TaggedIdEnd(s, i, "pid")
      [] pattern = "tid"        -> TaggedIdEnd(s, i, "tid")
      [] pattern = "bracketnum" -> BracketedNumberEnd(s, i)

\* s.replace(pattern, '') for an anchored pattern: the match at the start of
\* the line, if any, is removed.
RemoveAnchored(pattern, s) ==
    LET e == AnchoredEnd(pattern, s) IN IF e = 0 THEN s ELSE Drop(s, e)

\* s.replace(pattern, '') for a global pattern: every match, found from left
\* to right from position i on, is removed.
RECURSIVE RemoveAll(_, _, _)
RemoveAll(pattern, s, i) ==
    IF i > Len(s) THEN ""
    ELSE LET e == GlobalEnd(pattern, s, i)
         IN  IF e = 0 THEN CharAt(s, i) \o RemoveAll(pattern, s, i + 1)
             ELSE RemoveAll(pattern, s, e)

RECURSIVE ApplyAnchored(_, _)
ApplyAnchored(s, k) ==
    IF k > Len(AnchoredPatterns) THEN s
    ELSE ApplyAnchored(RemoveAnchored(AnchoredPatterns[k], s), k + 1)

RECURSIVE ApplyGlobal(_, _)
ApplyGlobal(s, k) ==
    IF k > Len(GlobalPatterns) THEN s
    ELSE ApplyGlobal(RemoveAll(GlobalPatterns[k], s, 1), k + 1)

\* for (const pattern of normalizePatterns) normalized = normalized.replace(pattern, '');
\* normalized = normalized.trim().toLowerCase()
NormalizeLine(originalLine) ==
    ToLowerCase(Trim(ApplyGlobal(ApplyAnchored(originalLine, 1), 1)))

(***************************************************************************)
(* The lines the inputs of the matcher are made of.  Normalising and       *)
(* categorising a line is a function of the line alone, so the results for *)
(* these lines are computed once and looked up (LineMemo); any other line  *)
(* is computed on the spot.                                                *)
(***************************************************************************)
\* Two timestamped variants of one line, a line of another category, and a
\* line that is only a clock time and a short word.
Catalogue ==
    { "2024-01-01T00:00:00Z ERROR db down",
      "2024-01-02T10:20:30.123Z ERROR db down",
      "WARN disk almost full",
      "12:00:01 ok" }

Repeat(line, n) == [i \in 1..n |-> line]

DecimalDigits == "0123456789"

\* k in 0..99 as two digits
TwoDigits(k) == CharAt(DecimalDigits, (k \div 10) + 1) \o CharAt(DecimalDigits, (k % 10) + 1)

\* The k-th generated line: its category cycles through the five categories.
GenLine(k) ==
    CASE k % 5 = 0 -> "ERROR task t" \o TwoDigits(k) \o " failed"
      [] k % 5 = 1 -> "WARN queue q" \o TwoDigits(k) \o " is slow"
      [] k % 5 = 2 -> "INFO job j" \o TwoDigits(k) \o " finished"
      [] k % 5 = 3 -> "DEBUG probe p" \o TwoDigits(k) \o " sent"
      [] k % 5 = 4 -> "metric m" \o TwoDigits(k) \o " was updated"

\* The largest number of generated lines an input holds.
MaxGenerated == 60

KnownLines == Catalogue \cup {GenLine(k) : k \in 1..MaxGenerated}

(***************************************************************************)
(* The exact-line matcher: LogAnalyzer.findExactLineMatches.               *)
(* A JavaScript Map keeps its keys in insertion order; lineMap and the     *)
(* per-entry occurrences map are sequences of entries in that order.       *)
(* The call is taken one file at a time (ProcessFile) and ends with        *)
(* TooFewFiles or ReturnMatches; nothing else runs in between.             *)
(***************************************************************************)
\* lineNumbers.slice(0, 10)
MaxLineNumbersShown == 10

\* matches.slice(0, 50)
MaxMatches == 50

\* originalLine.length < 10 and normalized.length < 10
MinLineLength == 10

\* matches.length < 2
MinMatches == 2

\* s contains the word w between word boundaries (\bw\b).
ContainsWord(s, w) ==
    \E i \in 1..(Len(s) - Len(w) + 1) :
        /\ SubSeq(s, i, i + Len(w) - 1) = w
        /\ WordStartsAt(s, i)
        /\ WordEndsAt(s, i + Len(w) - 1)

ContainsAnyWord(s, ws) == \E w \in ws : ContainsWord(s, w)

\* categorize: the first keyword group found in the lower-cased line.
MutCategorizeWarningFirst(line) ==
    LET lower == ToLowerCase(line)
    IN  IF ContainsAnyWord(lower, {"warn", "warning", "caution"}) THEN "warning"
        ELSE IF ContainsAnyWord(lower, {"error", "failed", "exception", "crash", "fatal"})
        THEN "error"
        ELSE IF ContainsWord(lower, "info") THEN "info"
        ELSE IF ContainsAnyWord(lower, {"debug", "trace", "verbose"}) THEN "debug"
        ELSE "other"

Categorize(line) ==
    LET lower == ToLowerCase(line)
    IN  IF ContainsAnyWord(lower, {"error", "failed", "exception", "crash", "fatal"})
        THEN "error"
        ELSE IF ContainsAnyWord(lower, {"warn", "warning", "caution"}) THEN "warning"
        ELSE IF ContainsWord(lower, "info") THEN "info"
        ELSE IF ContainsAnyWord(lower, {"debug", "trace", "verbose"}) THEN "debug"
        ELSE "other"

\* const categoryOrder = { error: 0, warning: 1, info: 2, debug: 3, other: 4 }
CategoryOrder(category) ==
    CASE category = "error"   -> 0
      [] category = "warning" -> 1
      [] category = "info"    -> 2
      [] category = "debug"   -> 3
      [] category = "other"   -> 4

LineMemo ==
    [l \in KnownLines |-> [normalized |-> NormalizeLine(l), category |-> Categorize(l)]]

NormalizedOf(originalLine) ==
    IF originalLine \in KnownLines THEN LineMemo[originalLine].normalized
    ELSE NormalizeLine(originalLine)

CategoryOf(originalLine) ==
    IF originalLine \in KnownLines THEN LineMemo[originalLine].category
    ELSE Categorize(originalLine)

\* The position of the entry with field `field` equal to v in a sequence of
\* records, 0 if there is none (Map.prototype.has / get).
IndexOf(entries, field, v) ==
    IF \E k \in 1..Len(entries) : entries[k][field] = v
    THEN CHOOSE k \in 1..Len(entries) : entries[k][field] = v
    ELSE 0

\* entry.occurrences.get(file.filename).push(lineNum + 1), after creating the
\* list on the file's first occurrence; lineNum1 is the 1-indexed number.
AddOccurrence(occurrences, filename, lineNum1) ==
    LET k == IndexOf(occurrences, "filename", filename)
    IN  IF k = 0
        THEN Append(occurrences,
                    [filename |-> filename, lineNumbers |-> <<lineNum1>>])
        ELSE [occurrences EXCEPT ![k].lineNumbers = Append(@, lineNum1)]

\* Skip empty lines, very short lines, or purely numeric lines.
SkipOriginal(originalLine) ==
    Len(originalLine) < MinLineLength \/ IsAllDigits(originalLine)

\* The body of the inner loop for the 0-indexed line lineNum of a file.
RecordLine(map, filename, rawLine, lineNum) ==
    LET originalLine == Trim(rawLine)
        normalized   == NormalizedOf(originalLine)
    IN  IF SkipOriginal(originalLine) THEN map
        ELSE IF Len(normalized) < MinLineLength THEN map
        ELSE LET k == IndexOf(map, "key", normalized)
             IN  IF k = 0
                 THEN Append(map,
                             [key         |-> normalized,
                              original    |-> originalLine,
                              category    |-> CategoryOf(originalLine),
                              occurrences |-> AddOccurrence(<<>>, filename, lineNum + 1)])
                 ELSE [map EXCEPT
                         ![k].occurrences = AddOccurrence(@, filename, lineNum + 1)]

\* for (let lineNum = from; lineNum < to; lineNum++) { ... }: the loop over
\* a range of lines is the loop over its first half followed by the loop
\* over its second half.
RECURSIVE RecordLines(_, _, _, _, _)
RecordLines(map, filename, lines, from, to) ==
    IF from >= to THEN map
    ELSE IF to - from = 1 THEN RecordLine(map, filename, lines[from + 1], from)
    ELSE LET mid == (from + to) \div 2
         IN  RecordLines(RecordLines(map, filename, lines, from, mid),
                         filename, lines, mid, to)

\* The body of the outer loop for one file: const lines =
\* file.content.split('\n'), then the inner loop over all its lines.
RecordFile(map, file) ==
    LET lines == SplitLines(file.content)
    IN  RecordLines(map, file.filename, lines, 0, Len(lines))

\* lineNumbers.slice(0, 10)
ShownLineNumbers(lineNumbers) ==
    SubSeq(lineNumbers, 1, Min(MaxLineNumbersShown, Len(lineNumbers)))

RECURSIVE SumOfLengths(_)
SumOfLengths(occurrences) ==
    IF Len(occurrences) = 0 THEN 0
    ELSE Len(Head(occurrences).lineNumbers) + SumOfLengths(Tail(occurrences))

\* The ExactLineMatch pushed for an entry of lineMap.
MatchOf(entry) ==
    [line        |-> entry.original,
     occurrences |-> [k \in 1..Len(entry.occurrences) |->
                        [filename    |-> entry.occurrences[k].filename,
                         lineNumbers |-> ShownLineNumbers(entry.occurrences[k].lineNumbers)]],
     category    |-> entry.category,
     totalCount  |-> SumOfLengths(entry.occurrences)]

\* if (entry.occurrences.size >= 2)
MutAppearsInSeveralFilesAlways(entry) == TRUE

AppearsInSeveralFiles(entry) == Len(entry.occurrences) >= 2

\* Filter to lines that appear in 2+ files, in the order of lineMap.
CrossFileMatches(map) ==
    LET entries == SelectSeq(map, AppearsInSeveralFiles)
    IN  [k \in 1..Len(entries) |-> MatchOf(entries[k])]

\* The comparator of matches.sort: negative when a sorts before b.
CompareMatches(a, b) ==
    LET categoryDiff == CategoryOrder(a.category) - CategoryOrder(b.category)
    IN  IF categoryDiff # 0 THEN categoryDiff ELSE b.totalCount - a.totalCount

\* Array.prototype.sort is stable: element i ends up after the elements that
\* sort before it and after the earlier elements that compare equal to it.
SortedPosition(matches, i) ==
    1 + Cardinality({j \in 1..Len(matches) :
                        \/ CompareMatches(matches[j], matches[i]) < 0
                        \/ CompareMatches(matches[j], matches[i]) = 0 /\ j < i})

SortMatches(matches) ==
    [p \in 1..Len(matches) |->
        matches[CHOOSE i \in 1..Len(matches) : SortedPosition(matches, i) = p]]

\* return matches.slice(0, 50)
TopMatches(sorted) == SubSeq(sorted, 1, Min(MaxMatches, Len(sorted)))

\* What findExactLineMatches returns once the loop over the files has filled
\* lineMap: filter, sort, the test for fewer than 2 matches, and the cap.
MatchesOf(map) ==
    LET matches == CrossFileMatches(map)
        sorted  == SortMatches(matches)
    IN  IF Len(sorted) < MinMatches THEN <<>> ELSE TopMatches(sorted)

\* The matcher has not been called.
IdleMatch ==
    /\ fileContents = <<>>
    /\ lineMap = <<>>
    /\ filesRead = 0
    /\ exactMatches = <<>>
    /\ matchPc = "idle"

\* if (files.length < 2) return []
TooFewFiles ==
    /\ matchPc = "input"
    /\ Len(fileContents) < 2
    /\ exactMatches' = <<>>
    /\ matchPc' = "done"
    /\ UNCHANGED <<fileContents, lineMap, filesRead, splitVars, poolVars,
                   parseVars, extractVars, mergeVars, similarVars,
                   streamVars,
                   callVars>>

\* One round of for (const file of files) { ... }
ProcessFile ==
    /\ matchPc = "input"
    /\ Len(fileContents) >= 2
    /\ filesRead < Len(fileContents)
    /\ lineMap' = RecordFile(lineMap, fileContents[filesRead + 1])
    /\ filesRead' = filesRead + 1
    /\ UNCHANGED <<fileContents, exactMatches, matchPc, splitVars, poolVars,
                   parseVars, extractVars, mergeVars, similarVars,
                   streamVars,
                   callVars>>

\* After the loop: similarities.exactMatches = the matches returned.
ReturnMatches ==
    /\ matchPc = "input"
    /\ Len(fileContents) >= 2
    /\ filesRead = Len(fileContents)
    /\ exactMatches' = MatchesOf(lineMap)
    /\ matchPc' = "done"
    /\ UNCHANGED <<fileContents, lineMap, filesRead, splitVars, poolVars,
                   parseVars, extractVars, mergeVars, similarVars,
                   streamVars,
                   callVars>>

(***************************************************************************)
(* List extraction (LogAnalyzer.extractListItems)                          *)
(*                                                                         *)
(* The bullet character U+2022 is written "@" in this model; "@" itself    *)
(* does not occur in the texts the specifications read.                    *)
(***************************************************************************)
Bullet == "@"

\* [-*•]
BulletChars == {"-", "*", Bullet}

\* The characters "." does not match.
LineTerminators == {LF, "\r"}

\* \s of a pattern applied to a text of several lines, and what
\* String.prototype.trim removes from it.
WhiteSpace == SpaceChars \cup {LF}

\* The smallest and the largest element of a non-empty set of positions.
First(positions) == CHOOSE i \in positions : \A j \in positions : i <= j

Last(positions) == CHOOSE i \in positions : \A j \in positions : i >= j

\* String.prototype.trim on a text of several lines
TrimText(s) ==
    LET kept == {i \in 1..Len(s) : CharAt(s, i) \notin WhiteSpace}
    IN  IF kept = {} THEN "" ELSE SubSeq(s, First(kept), Last(kept))

\* What a greedy .* or .+ takes of s: everything before the first line
\* terminator.
DotRun(s) ==
    LET ends == {i \in 1..Len(s) : CharAt(s, i) \in LineTerminators}
    IN  IF ends = {} THEN s ELSE SubSeq(s, 1, First(ends) - 1)

\* String.prototype.includes
Includes(s, t) ==
    \E i \in 1..(Len(s) - Len(t) + 1) : SubSeq(s, i, i + Len(t) - 1) = t

\* String.prototype.startsWith
StartsWith(s, t) == Len(t) <= Len(s) /\ SubSeq(s, 1, Len(t)) = t

\* trimmed.match(/^[-*•]\s*(.+)/): the captured group, "" when the line
\* does not match (the group of a match is never empty).
BulletMatch(trimmed) ==
    IF CharIn(trimmed, 1, BulletChars)
    THEN DotRun(Drop(trimmed, 2 + RunLength(trimmed, 2, SpaceChars)))
    ELSE ""

\* trimmed.match(/^\d+[.)]\s*(.+)/): the captured group, "" when the line
\* does not match.
NumberedMatch(trimmed) ==
    LET digits == RunLength(trimmed, 1, DigitChars)
    IN  IF digits >= 1 /\ CharIn(trimmed, digits + 1, {".", ")"})
        THEN DotRun(Drop(trimmed,
                         digits + 2 + RunLength(trimmed, digits + 2, SpaceChars)))
        ELSE ""

\* trimmed.match(/^\*\*(.+?)\*\*[:\s]*(.*)/): whether the line matches, and
\* the two captured groups.
BoldMatch(trimmed) ==
    LET closings == {k \in 4..(Len(trimmed) - 1) :
                        /\ SubSeq(trimmed, k, k + 1) = "**"
                        /\ \A j \in 3..(k - 1) : ~CharIn(trimmed, j, LineTerminators)}
    IN  IF StartsWith(trimmed, "**") /\ closings # {}
        THEN LET k    == First(closings)
                 rest == k + 2 + RunLength(trimmed, k + 2, SpaceChars \cup {":"})
             IN  [matched |-> TRUE,
                  phrase |-> SubSeq(trimmed, 3, k - 1),
                  description |-> DotRun(Drop(trimmed, rest))]
        ELSE [matched |-> FALSE, phrase |-> "", description |-> ""]

\* currentItem = boldMatch[2] ? `**${boldMatch[1]}**: ${boldMatch[2]}` : boldMatch[1]
BoldItem(boldMatch) ==
    IF boldMatch.description # ""
    THEN "**" \o boldMatch.phrase \o "**: " \o boldMatch.description
    ELSE boldMatch.phrase

\* let currentItem = ""; const items = []
ExtractStart == [items |-> <<>>, currentItem |-> ""]

\* if (currentItem) items.push(currentItem.trim())
PushCurrent(st) ==
    IF st.currentItem # "" THEN Append(st.items, Trim(st.currentItem)) ELSE st.items

\* One round of for (const line of lines) { ... }: the tests in the order
\* the code makes them.
ExtractLine(st, line) ==
    LET trimmed == Trim(line)
        bulletMatch == BulletMatch(trimmed)
        numberedMatch == NumberedMatch(trimmed)
        boldMatch == BoldMatch(trimmed)
    IN  IF trimmed = ""
        THEN [items |-> PushCurrent(st), currentItem |-> ""]
        ELSE IF bulletMatch # ""
        THEN [items |-> PushCurrent(st), currentItem |-> bulletMatch]
        ELSE IF numberedMatch # ""
        THEN [items |-> PushCurrent(st), currentItem |-> numberedMatch]
        ELSE IF boldMatch.matched
        THEN [items |-> PushCurrent(st), currentItem |-> BoldItem(boldMatch)]
        ELSE IF st.currentItem # "" /\ (StartsWith(line, "  ") \/ StartsWith(line, "\t"))
        THEN [st EXCEPT !.currentItem = st.currentItem \o " " \o trimmed]
        ELSE IF st.currentItem = "" /\ ~StartsWith(trimmed, "#")
        THEN [st EXCEPT !.currentItem = trimmed]
        ELSE st

RECURSIVE ExtractLoop(_, _, _)
ExtractLoop(st, lines, i) ==
    IF i > Len(lines) THEN st
    ELSE ExtractLoop(ExtractLine(st, lines[i]), lines, i + 1)

\* item.match(/^\[.+\]$/)
WhollyBracketed(item) ==
    /\ Len(item) >= 3
    /\ CharAt(item, 1) = "["
    /\ CharAt(item, Len(item)) = "]"
    /\ \A j \in 2..(Len(item) - 1) : ~CharIn(item, j, LineTerminators)

\* The negative phrases of the final filter.
NegativePhrases == {"none found", "no patterns", "no anomalies", "no root causes"}

\* The predicate of the final items.filter(...).
KeepItem(item) ==
    /\ item # ""
    /\ ~Includes(item, "[List")
    /\ ~Includes(ToLowerCase(item), "list here")
    /\ ~WhollyBracketed(item)
    /\ \A phrase \in NegativePhrases : ~Includes(ToLowerCase(item), phrase)

\* The items collected by the loop over the lines and the push after it,
\* before the final filter.
CollectedItems(text) == PushCurrent(ExtractLoop(ExtractStart, SplitLines(text), 1))

extractListItems(text) == SelectSeq(CollectedItems(text), KeepItem)

\* extractListItems has not been called.
IdleExtract ==
    /\ sectionText = ""
    /\ listItems = <<>>
    /\ extractPc = "idle"

\* const items = this.extractListItems(text)
ExtractItems ==
    /\ extractPc = "input"
    /\ listItems' = extractListItems(sectionText)
    /\ extractPc' = "done"
    /\ UNCHANGED <<sectionText, splitVars, poolVars, matchVars, parseVars, mergeVars,
                   similarVars,
                   streamVars,
                   callVars>>

(***************************************************************************)
(* The response parser (LogAnalyzer.parseAnalysisResponse)                 *)
(***************************************************************************)
SectionNames == <<"PATTERNS", "ANOMALIES", "ROOT CAUSES", "SUMMARY">>

\* Where the label of a heading ends when it starts at position j of the
\* content (the position after its last character), 0 when no label of the
\* section starts there:
\*   PATTERNS?   ANOMAL(?:Y|IES)   ROOT\s*CAUSES?   SUMMARY   under the i flag
LabelEnd(section, text, j) ==
    CASE section = "PATTERNS" ->
            IF HasAt(text, j, "PATTERN")
            THEN j + 7 + (IF HasAt(text, j + 7, "S") THEN 1 ELSE 0)
            ELSE 0
      [] section = "ANOMALIES" ->
            IF HasAt(text, j, "ANOMALY") THEN j + 7
            ELSE IF HasAt(text, j, "ANOMALIES") THEN j + 9
            ELSE 0
      [] section = "ROOT CAUSES" ->
            IF HasAt(text, j, "ROOT")
            THEN LET c == j + 4 + RunLength(text, j + 4, WhiteSpace)
                 IN  IF HasAt(text, c, "CAUSE")
                     THEN c + 5 + (IF HasAt(text, c + 5, "S") THEN 1 ELSE 0)
                     ELSE 0
            ELSE 0
      [] section = "SUMMARY" ->
            IF HasAt(text, j, "SUMMARY") THEN j + 7 ELSE 0

\* Where the captured group starts when the heading ##\s*LABEL\s*\n? of the
\* section matches at position i (every quantifier takes all it can, and the
\* rest of the pattern then always matches), 0 when it does not match there.
BodyStart(section, text, i) ==
    IF i + 1 <= Len(text) /\ SubSeq(text, i, i + 1) = "##"
    THEN LET j == i + 2 + RunLength(text, i + 2, WhiteSpace)
             k == LabelEnd(section, text, j)
         IN  IF k = 0 THEN 0
             ELSE LET m == k + RunLength(text, k, WhiteSpace)
                  IN  IF CharIn(text, m, {LF}) THEN m + 1 ELSE m
    ELSE 0

\* The positions where the heading of the section matches.
HeadingPositions(section, text) ==
    {i \in 1..Len(text) : BodyStart(section, text, i) # 0}

\* (?=\n##|$) holds at position p.
BodyEndsAt(text, p) ==
    \/ p = Len(text) + 1
    \/ p + 2 <= Len(text) /\ SubSeq(text, p, p + 2) = "\n##"

\* ([\s\S]*?)(?=\n##|$) from position b: the shortest text after which the
\* lookahead holds.
LazyBody(text, b) ==
    LET p == First({q \in b..(Len(text) + 1) : BodyEndsAt(text, q)})
    IN  SubSeq(text, b, p - 1)

\* content.match(sections.<section>): whether there is a match, and its
\* captured group.  The pattern of SUMMARY captures up to the end of the
\* content; the other three stop before the next "\n##".
SectionMatch(section, text) ==
    LET at == HeadingPositions(section, text)
    IN  IF at = {} THEN [matched |-> FALSE, body |-> ""]
        ELSE LET b == BodyStart(section, text, First(at))
             IN  [matched |-> TRUE,
                  body |-> IF section = "SUMMARY" THEN Drop(text, b)
                           ELSE LazyBody(text, b)]

\* if (match) result.<list> = this.extractListItems(match[1])
ListOf(section, text) ==
    LET match == SectionMatch(section, text)
    IN  IF match.matched THEN extractListItems(match.body) ELSE <<>>

\* if (summaryMatch) result.summary = summaryMatch[1].trim()
SummaryOf(text) ==
    LET summaryMatch == SectionMatch("SUMMARY", text)
    IN  IF summaryMatch.matched THEN TrimText(summaryMatch.body) ELSE ""

parseAnalysisResponse(text) ==
    [patterns |-> ListOf("PATTERNS", text),
     anomalies |-> ListOf("ANOMALIES", text),
     rootCauses |-> ListOf("ROOT CAUSES", text),
     summary |-> SummaryOf(text)]

\* const result = { patterns: [], anomalies: [], rootCauses: [], summary: "" }
EmptyResult == [patterns |-> <<>>, anomalies |-> <<>>, rootCauses |-> <<>>, summary |-> ""]

\* parseAnalysisResponse has not been called.
IdleParse ==
    /\ sectionsSent = <<>>
    /\ parseInput = ""
    /\ parseResult = EmptyResult
    /\ parsePc = "idle"

\* return this.parseAnalysisResponse(response.data.content)
ParseResponse ==
    /\ parsePc = "input"
    /\ parseResult' = parseAnalysisResponse(parseInput)
    /\ parsePc' = "done"
    /\ UNCHANGED <<sectionsSent, parseInput, splitVars, poolVars, matchVars,
                   extractVars, mergeVars, similarVars,
                   streamVars,
                   callVars>>

(***************************************************************************)
(* Consolidation of chunk results (LogAnalyzer.aggregateChunkResults and   *)
(* LogAnalyzer.mergeChunkResultsManually)                                  *)
(***************************************************************************)
\* A non-negative integer as a template literal writes it.
RECURSIVE Decimal(_)
Decimal(n) ==
    IF n < 10 THEN CharAt(DecimalDigits, n + 1)
    ELSE Decimal(n \div 10) \o CharAt(DecimalDigits, (n % 10) + 1)

\* value occurs in the sequence.
Occurs(seq, value) == \E i \in 1..Len(seq) : seq[i] = value

\* Set.prototype.add on a Set kept as the sequence of its elements in
\* insertion order: an element already present is not added again.
MutSetAddAgain(set, value) == Append(set, value)

SetAdd(set, value) == IF Occurs(set, value) THEN set ELSE Append(set, value)

\* list.forEach((x) => set.add(x)) from the i-th element on
RECURSIVE AddAll(_, _, _)
AddAll(set, list, i) ==
    IF i > Len(list) THEN set ELSE AddAll(SetAdd(set, list[i]), list, i + 1)

\* for (const chunk of chunks) { ... } from the i-th chunk on, for the
\* three Sets allPatterns, allAnomalies and allRootCauses
RECURSIVE MergeLoop(_, _, _)
MergeLoop(sets, chunkList, i) ==
    IF i > Len(chunkList) THEN sets
    ELSE MergeLoop([allPatterns |-> AddAll(sets.allPatterns, chunkList[i].patterns, 1),
                    allAnomalies |-> AddAll(sets.allAnomalies, chunkList[i].anomalies, 1),
                    allRootCauses |-> AddAll(sets.allRootCauses, chunkList[i].rootCauses, 1)],
                   chunkList, i + 1)

mergeChunkResultsManually(chunkList) ==
    LET sets == MergeLoop([allPatterns |-> <<>>, allAnomalies |-> <<>>,
                           allRootCauses |-> <<>>], chunkList, 1)
    IN  [patterns |-> sets.allPatterns,
         anomalies |-> sets.allAnomalies,
         rootCauses |-> sets.allRootCauses,
         summary |-> "Analyzed " \o Decimal(Len(chunkList))
                         \o " segments of the log file."]

\* if (chunks.length === 1) return { ... }
MutSingleChunkMerged(chunk) ==
    [mergeChunkResultsManually(<<chunk>>) EXCEPT
        !.summary = "Single chunk analysis completed."]

SingleChunkResult(chunk) ==
    [patterns |-> chunk.patterns,
     anomalies |-> chunk.anomalies,
     rootCauses |-> chunk.rootCauses,
     summary |-> "Single chunk analysis completed."]

\* if (!response || !response.data.content) return this.mergeChunkResultsManually(chunks)
\* return this.parseAnalysisResponse(response.data.content)
ConsolidationOf(chunkList, outcome) ==
    IF HasContent(outcome) THEN parseAnalysisResponse(outcome.content)
    ELSE mergeChunkResultsManually(chunkList)

\* aggregateChunkResults has not been called.
IdleMerge ==
    /\ chunkResults = <<>>
    /\ promptsSent = 0
    /\ aggregateResult = EmptyResult
    /\ aggregatePc = "idle"
    /\ viaFallback = FALSE

\* aggregateChunkResults with exactly one chunk: it returns before any
\* request is built.
AggregateSingleChunk ==
    /\ aggregatePc = "input"
    /\ Len(chunkResults) = 1
    /\ aggregateResult' = SingleChunkResult(chunkResults[1])
    /\ aggregatePc' = "resolved"
    /\ UNCHANGED <<chunkResults, promptsSent, viaFallback, splitVars, poolVars, matchVars,
                   parseVars, extractVars, similarVars,
                   streamVars,
                   callVars>>

\* this.session.sendAndWait({ prompt: aggregationPrompt }): the request is sent
\* and the call waits for the oracle.
SendConsolidation ==
    /\ aggregatePc = "input"
    /\ Len(chunkResults) # 1
    /\ promptsSent' = promptsSent + 1
    /\ aggregatePc' = "await"
    /\ UNCHANGED <<chunkResults, aggregateResult, viaFallback, splitVars, poolVars,
                   matchVars, parseVars, extractVars, similarVars,
                   streamVars,
                   callVars>>

\* sendAndWait resolves with `outcome`; the rest of aggregateChunkResults runs.
ConsolidationSettles(outcome) ==
    /\ aggregatePc = "await"
    /\ aggregateResult' = ConsolidationOf(chunkResults, outcome)
    /\ viaFallback' = ~HasContent(outcome)
    /\ aggregatePc' = "resolved"
    /\ UNCHANGED <<chunkResults, promptsSent, splitVars, poolVars, matchVars,
                   parseVars, extractVars, similarVars,
                   streamVars,
                   callVars>>

\* The consolidation response carries content.
ConsolidationAnswers(text) == ConsolidationSettles([kind |-> "resolve", content |-> text])

\* The oracle settles with no response, or with a response without content.
ConsolidationHasNoContent == ConsolidationSettles([kind |-> "resolve", content |-> ""])

\* sendAndWait rejects.  The await is in no try block, so
\* aggregateChunkResults rejects with the same error.
ConsolidationRejects ==
    /\ aggregatePc = "await"
    /\ aggregatePc' = "rejected"
    /\ UNCHANGED <<chunkResults, promptsSent, aggregateResult, viaFallback, splitVars,
                   poolVars, matchVars, parseVars, extractVars, similarVars,
                   streamVars,
                   callVars>>

(***************************************************************************)
(* Cross-file similarity (LogAnalyzer.findSimilarities,                    *)
(* parseSimilaritiesResponse and findSimilaritiesManually)                 *)
(***************************************************************************)
\* const threshold = 2
SharedThreshold == 2

\* counts.set(normalized, (counts.get(normalized) || 0) + 1) on a Map kept as
\* the sequence of its entries in insertion order.
CountItem(counts, item) ==
    LET normalized == ToLowerCase(item)
        at == {i \in 1..Len(counts) : counts[i].key = normalized}
    IN  IF at = {} THEN Append(counts, [key |-> normalized, count |-> 1])
        ELSE LET i == First(at)
             IN  [counts EXCEPT ![i].count = counts[i].count + 1]

\* list.forEach((x) => { ... }) from the i-th element on
RECURSIVE CountAll(_, _, _)
CountAll(counts, list, i) ==
    IF i > Len(list) THEN counts ELSE CountAll(CountItem(counts, list[i]), list, i + 1)

\* for (const fr of fileResults) { ... } from the i-th file on, for the list
\* named `field` of each file's analysis
RECURSIVE CountFiles(_, _, _, _)
CountFiles(counts, files, field, i) ==
    IF i > Len(files) THEN counts
    ELSE CountFiles(CountAll(counts, files[i].analysis[field], 1), files, field, i + 1)

ReachesThreshold(entry) == entry.count >= SharedThreshold

\* Array.from(counts.entries()).filter(([, count]) => count >= threshold)
\*      .map(([key]) => key)
SharedKeys(counts) ==
    LET kept == SelectSeq(counts, ReachesThreshold)
    IN  [i \in 1..Len(kept) |-> kept[i].key]

findSimilaritiesManually(files) ==
    [sharedPatterns |-> SharedKeys(CountFiles(<<>>, files, "patterns", 1)),
     sharedAnomalies |-> SharedKeys(CountFiles(<<>>, files, "anomalies", 1)),
     sharedRootCauses |-> SharedKeys(CountFiles(<<>>, files, "rootCauses", 1)),
     correlations |-> <<>>]

NoSimilarities ==
    [sharedPatterns |-> <<>>, sharedAnomalies |-> <<>>, sharedRootCauses |-> <<>>,
     correlations |-> <<>>]

\* (?=## |$) holds at position p.
SharedBodyEndsAt(text, p) ==
    \/ p = Len(text) + 1
    \/ p + 2 <= Len(text) /\ SubSeq(text, p, p + 2) = "## "

\* content.match(/<heading>\s*([\s\S]*?)(?=## |$)/i), or with ([\s\S]*?)$ for
\* the last heading: whether there is a match, and its captured group.
SharedSectionMatch(heading, text, toEnd) ==
    LET at == {i \in 1..Len(text) : HasAt(text, i, heading)}
    IN  IF at = {} THEN [matched |-> FALSE, body |-> ""]
        ELSE LET h == First(at) + Len(heading)
                 b == h + RunLength(text, h, WhiteSpace)
                 p == IF toEnd THEN Len(text) + 1
                      ELSE First({q \in b..(Len(text) + 1) : SharedBodyEndsAt(text, q)})
             IN  [matched |-> TRUE, body |-> SubSeq(text, b, p - 1)]

SharedListOf(heading, text, toEnd) ==
    LET match == SharedSectionMatch(heading, text, toEnd)
    IN  IF match.matched THEN extractListItems(match.body) ELSE <<>>

parseSimilaritiesResponse(text) ==
    [sharedPatterns |-> SharedListOf("## SHARED PATTERNS", text, FALSE),
     sharedAnomalies |-> SharedListOf("## SHARED ANOMALIES", text, FALSE),
     sharedRootCauses |-> SharedListOf("## SHARED ROOT CAUSES", text, FALSE),
     correlations |-> SharedListOf("## CORRELATIONS", text, TRUE)]

\* findSimilarities has not been called.
IdleSimilar ==
    /\ fileResults = <<>>
    /\ similarityResult = NoSimilarities
    /\ similarPc = "idle"
    /\ similarVia = "none"

\* if (fileResults.length < 2) return { ... all empty ... }
TooFewFileResults ==
    /\ similarPc = "input"
    /\ Len(fileResults) < 2
    /\ similarityResult' = NoSimilarities
    /\ similarPc' = "resolved"
    /\ similarVia' = "too few files"
    /\ UNCHANGED <<fileResults, splitVars, poolVars, matchVars, parseVars, extractVars,
                   mergeVars,
                   streamVars,
                   callVars>>

\* this.session.sendAndWait({ prompt: comparisonPrompt })
SendComparison ==
    /\ similarPc = "input"
    /\ Len(fileResults) >= 2
    /\ similarPc' = "await"
    /\ UNCHANGED <<fileResults, similarityResult, similarVia, splitVars, poolVars, matchVars,
                   parseVars, extractVars, mergeVars,
                   streamVars,
                   callVars>>

\* The comparison response carries content.
ComparisonAnswers(text) ==
    /\ similarPc = "await"
    /\ similarityResult' = parseSimilaritiesResponse(text)
    /\ similarPc' = "resolved"
    /\ similarVia' = "oracle"
    /\ UNCHANGED <<fileResults, splitVars, poolVars, matchVars, parseVars, extractVars,
                   mergeVars,
                   streamVars,
                   callVars>>

\* if (!response || !response.data.content) return this.findSimilaritiesManually(fileResults)
ComparisonHasNoContent ==
    /\ similarPc = "await"
    /\ similarityResult' = findSimilaritiesManually(fileResults)
    /\ similarPc' = "resolved"
    /\ similarVia' = "fallback"
    /\ UNCHANGED <<fileResults, splitVars, poolVars, matchVars, parseVars, extractVars,
                   mergeVars,
                   streamVars,
                   callVars>>

\* sendAndWait rejects, and findSimilarities with it.
ComparisonRejects ==
    /\ similarPc = "await"
    /\ similarPc' = "rejected"
    /\ UNCHANGED <<fileResults, similarityResult, similarVia, splitVars, poolVars, matchVars,
                   parseVars, extractVars, mergeVars,
                   streamVars,
                   callVars>>

(***************************************************************************)
(* Streamed exchanges: analyzeLogContent on the shared session             *)
(*                                                                         *)
(* Every call of analyzeLogContent subscribes a handler to the one session *)
(* of the analyzer, sends its request and awaits the terminal response.    *)
(* The session hands each event to every subscribed handler; the handler   *)
(* does not look at the exchange an event belongs to.                      *)
(***************************************************************************)
\* The deltas the session streams at most, over all exchanges.
MaxDeltas == 2

\* return this.parseAnalysisResponse(response.data.content)
MutParsedAccumulated(response, accumulated) == accumulated

ParsedText(response, accumulated) == response.content

\* The handler of a call on an event: fullResponse += deltaContent on a
\* message delta, nothing on a reasoning delta.
AccumulatedAfter(accumulated, type, deltaContent) ==
    IF type = "assistant.message_delta" THEN accumulated \o deltaContent ELSE accumulated

\* No call of analyzeLogContent was made.
IdleStream ==
    /\ exchangePc = <<>>
    /\ fullResponse = <<>>
    /\ subscribers = <<>>
    /\ deltasSent = <<>>
    /\ streamingEvents = <<>>
    /\ terminalResponse = <<>>
    /\ parserCalls = <<>>

\* analyzeLogContent up to its await: let fullResponse = "", the handler is
\* subscribed, the request is sent.  The calls are numbered in the order
\* they are made.
BeginExchange(e) ==
    /\ e \in DOMAIN exchangePc
    /\ exchangePc[e] = "start"
    /\ \A earlier \in 1..(e - 1) : exchangePc[earlier] # "start"
    /\ exchangePc' = [exchangePc EXCEPT ![e] = "await"]
    /\ fullResponse' = [fullResponse EXCEPT ![e] = ""]
    /\ subscribers' = Append(subscribers, e)
    /\ UNCHANGED <<deltasSent, streamingEvents, terminalResponse, parserCalls,
                   splitVars, poolVars, matchVars, parseVars, extractVars, mergeVars,
                   similarVars,
                   callVars>>

\* The session streams a delta of the exchange of call e: every subscribed
\* handler runs, in the order of the subscriptions, and emits a 'streaming'
\* event with the delta and its own fullResponse.
DeltaArrives(e, type, deltaContent) ==
    /\ e \in DOMAIN exchangePc
    /\ exchangePc[e] = "await"
    /\ Len(deltasSent) < MaxDeltas
    /\ deltasSent' = Append(deltasSent,
                            [exchange |-> e, type |-> type, deltaContent |-> deltaContent])
    /\ fullResponse' = [h \in DOMAIN fullResponse |->
                           IF \E k \in 1..Len(subscribers) : subscribers[k] = h
                           THEN AccumulatedAfter(fullResponse[h], type, deltaContent)
                           ELSE fullResponse[h]]
    /\ streamingEvents' = streamingEvents \o
           [k \in 1..Len(subscribers) |->
               [delta      |-> deltaContent,
                fullText   |-> fullResponse'[subscribers[k]],
                handler    |-> subscribers[k],
                deltaIndex |-> Len(deltasSent')]]
    /\ UNCHANGED <<exchangePc, subscribers, terminalResponse, parserCalls,
                   splitVars, poolVars, matchVars, parseVars, extractVars, mergeVars,
                   similarVars,
                   callVars>>

MessageDelta(e, deltaContent) == DeltaArrives(e, "assistant.message_delta", deltaContent)

ReasoningDelta(e, deltaContent) == DeltaArrives(e, "assistant.reasoning_delta", deltaContent)

\* sendAndWait of call e settles: the handler is unsubscribed; with content
\* the content is parsed and the call returns, else the call throws.
ExchangeSettles(e, outcome) ==
    /\ e \in DOMAIN exchangePc
    /\ exchangePc[e] = "await"
    /\ terminalResponse' = [terminalResponse EXCEPT ![e] = outcome]
    /\ subscribers' = SelectSeq(subscribers, LAMBDA h : h # e)
    /\ parserCalls' = IF HasContent(outcome)
                      THEN [parserCalls EXCEPT
                              ![e] = Append(@, ParsedText(outcome, fullResponse[e]))]
                      ELSE parserCalls
    /\ exchangePc' = [exchangePc EXCEPT
                        ![e] = IF HasContent(outcome) THEN "returned" ELSE "failed"]
    /\ UNCHANGED <<fullResponse, deltasSent, streamingEvents,
                   splitVars, poolVars, matchVars, parseVars, extractVars, mergeVars,
                   similarVars,
                   callVars>>

ExchangeAnswers(e, text) ==
    /\ text # ""
    /\ ExchangeSettles(e, [kind |-> "resolve", content |-> text])

ExchangeHasNoContent(e) == ExchangeSettles(e, [kind |-> "resolve", content |-> ""])

ExchangeRejects(e) == ExchangeSettles(e, [kind |-> "reject", content |-> ""])

(***************************************************************************)
(* The analyzer's session and its public analysis calls                    *)
(*                                                                         *)
(* An analysis call is written out as the list of its steps in program     *)
(* order: the progress events it emits, the requests it sends to the       *)
(* oracle and awaits, and the exceptions it throws.  The steps of a called *)
(* method stand in the caller's list where the call is awaited.  The       *)
(* requests of the chunk pool are answered one at a time here: the         *)
(* callback counts the completed chunks, so the progress events of the     *)
(* pool do not depend on the order of the answers.                         *)
(***************************************************************************)
\* this.emitProgress({ stage, progress, ... })
Emit(stage, progress) == [ins |-> "emit", stage |-> stage, progress |-> progress, via |-> ""]

\* await this.session.sendAndWait(...) in the method `via`
Request(via) == [ins |-> "request", stage |-> "", progress |-> 0, via |-> via]

\* throw new Error(error)
Throw(error) == [ins |-> "throw", stage |-> "", progress |-> 0, via |-> error]

\* Math.round(numerator / denominator) for numbers that are not negative.
Round(numerator, denominator) == (2 * numerator + denominator) \div (2 * denominator)

\* The lists steps[1], ..., steps[n] joined.
RECURSIVE Concat(_, _)
Concat(steps, n) == IF n = 0 THEN <<>> ELSE Concat(steps, n - 1) \o steps[n]

\* if (!this.session)
MutSessionAssumed(s) == FALSE

SessionMissing(s) == s = "null"

NotInitialized == << Throw("Analyzer not initialized. Call initialize() first.") >>

\* The message deltas streamed during a call at most.
MaxCallDeltas == 1

\* The chunks a large file or buffer is split into.
LargeChunks == 2

\* The chunks a file or buffer is split into: one for a small one.
ChunksOf(kind) == IF kind = "large" THEN LargeChunks ELSE 1

analyzeLogContent(s) ==
    IF SessionMissing(s) THEN NotInitialized ELSE << Request("analyzeLogContent") >>

analyzeLogFileDirect(s) ==
    IF SessionMissing(s) THEN NotInitialized ELSE << Request("analyzeLogFileDirect") >>

aggregateChunkResults(s, n) ==
    IF SessionMissing(s) THEN << Throw("Analyzer not initialized.") >>
    ELSE IF n = 1 THEN <<>>
    ELSE << Request("aggregateChunkResults") >>

analyzeLogFileInChunks(s, kind) ==
    IF SessionMissing(s) THEN NotInitialized
    ELSE LET n == ChunksOf(kind)
         IN  << Emit("scanning", 0), Emit("analyzing", 0) >>
             \o Concat([k \in 1..n |->
                          analyzeLogContent(s) \o << Emit("analyzing", Round(k * 80, n)) >>], n)
             \o << Emit("aggregating", 85) >>
             \o aggregateChunkResults(s, n)
             \o << Emit("complete", 100) >>

analyzeLogFile(s, kind) ==
    IF SessionMissing(s) THEN NotInitialized
    ELSE IF kind = "missing" THEN << Throw("Log file not found") >>
    ELSE IF kind = "small"
    THEN << Emit("analyzing", 0) >> \o analyzeLogFileDirect(s) \o << Emit("complete", 100) >>
    ELSE analyzeLogFileInChunks(s, kind)

analyzeLogBuffer(s, kind) ==
    << Emit("scanning", 5) >>
    \o (IF kind = "small"
        THEN << Emit("analyzing", 15) >> \o analyzeLogContent(s) \o << Emit("complete", 100) >>
        ELSE LET n == ChunksOf(kind)
             IN  Concat([k \in 1..n |->
                           << Emit("analyzing", Round((k - 1) * 80, n)) >>
                           \o analyzeLogContent(s)], n)
                 \o << Emit("aggregating", 85) >>
                 \o aggregateChunkResults(s, n)
                 \o << Emit("complete", 100) >>)

findSimilarities(s, n) ==
    IF SessionMissing(s) THEN << Throw("Analyzer not initialized.") >>
    ELSE IF n < 2 THEN <<>>
    ELSE << Request("findSimilarities") >>

generateMultiFileSummary(s) ==
    IF SessionMissing(s) THEN <<>> ELSE << Request("generateMultiFileSummary") >>

analyzeMultipleLogFiles(s, kinds) ==
    IF SessionMissing(s) THEN NotInitialized
    ELSE IF Len(kinds) = 0 THEN << Throw("No log files provided") >>
    ELSE << Emit("analyzing", 0) >>
         \o Concat([i \in 1..Len(kinds) |->
                      << Emit("analyzing", Round((i - 1) * 70, Len(kinds))) >>
                      \o (IF kinds[i] = "missing" THEN << Throw("Log file not found") >>
                          ELSE analyzeLogFile(s, kinds[i]))], Len(kinds))
         \o << Emit("aggregating", 75) >>
         \o findSimilarities(s, Len(kinds))
         \o << Emit("aggregating", 90) >>
         \o generateMultiFileSummary(s)
         \o << Emit("complete", 100) >>

analyzeMultipleBuffers(s, kinds) ==
    IF SessionMissing(s) THEN NotInitialized
    ELSE IF Len(kinds) = 0 THEN << Throw("No files provided") >>
    ELSE << Emit("analyzing", 0) >>
         \o Concat([i \in 1..Len(kinds) |->
                      << Emit("analyzing", Round((i - 1) * 70, Len(kinds))) >>
                      \o analyzeLogBuffer(s, kinds[i])], Len(kinds))
         \o << Emit("aggregating", 75) >>
         \o findSimilarities(s, Len(kinds))
         \o << Emit("aggregating", 82), Emit("aggregating", 90) >>
         \o generateMultiFileSummary(s)
         \o << Emit("complete", 100) >>

\* The steps of the public operation `name` called with files or buffers of
\* the given kinds while this.session is s.
StepsOf(name, s, kinds) ==
    CASE name = "analyzeLogFile" -> analyzeLogFile(s, kinds[1])
      [] name = "analyzeLogFileInChunks" -> analyzeLogFileInChunks(s, kinds[1])
      [] name = "analyzeLogContent" -> analyzeLogContent(s)
      [] name = "analyzeLogBuffer" -> analyzeLogBuffer(s, kinds[1])
      [] name = "analyzeMultipleLogFiles" -> analyzeMultipleLogFiles(s, kinds)
      [] name = "analyzeMultipleBuffers" -> analyzeMultipleBuffers(s, kinds)

\* The first step from i on that is no progress event (past the end: the
\* call returns).
StopFrom(steps, i) ==
    IF \E j \in i..Len(steps) : steps[j].ins # "emit"
    THEN First({j \in i..Len(steps) : steps[j].ins # "emit"})
    ELSE Len(steps) + 1

\* The progress events of the steps i to j - 1.
EventsBetween(steps, i, j) ==
    [k \in 1..(j - i) |->
        [stage |-> steps[i + k - 1].stage, progress |-> steps[i + k - 1].progress]]

\* The call runs from step i to its next await, to its return or to the
\* exception that leaves it.
RunFrom(steps, i, events, requests) ==
    LET j == StopFrom(steps, i)
    IN  /\ progressEvents' = events \o EventsBetween(steps, i, j)
        /\ IF j > Len(steps)
           THEN /\ callOutcome' = "returned"
                /\ pc' = 0
                /\ requestsSent' = requests
           ELSE IF steps[j].ins = "throw"
           THEN /\ callOutcome' = IF steps[j] \in {NotInitialized[1]}
                                  THEN "not initialized" ELSE "failed"
                /\ pc' = 0
                /\ requestsSent' = requests
           ELSE /\ callOutcome' = "pending"
                /\ pc' = j
                /\ requestsSent' = requests + 1
        /\ charCount' = 0

\* The analyzer is constructed and no call was made.
IdleCalls ==
    /\ clientPc = "new"
    /\ session = "null"
    /\ program = <<>>
    /\ pc = 0
    /\ progressEvents = <<>>
    /\ requestsSent = 0
    /\ charCount = 0
    /\ deltasSeen = 0
    /\ callOutcome = "none"
    /\ callOp = ""
    /\ hadSession = FALSE

\* initialize(): await this.client.start()
Initialize ==
    /\ clientPc = "new"
    /\ callOutcome # "pending"
    /\ clientPc' = "starting"
    /\ UNCHANGED <<session, program, pc, progressEvents, requestsSent, charCount,
                   deltasSeen, callOutcome, callOp, hadSession,
                   splitVars, poolVars, matchVars, parseVars, extractVars, mergeVars,
                   similarVars, streamVars>>

\* The client has started: await this.client.createSession(...)
ClientStarted ==
    /\ clientPc = "starting"
    /\ callOutcome # "pending"
    /\ clientPc' = "creating"
    /\ UNCHANGED <<session, program, pc, progressEvents, requestsSent, charCount,
                   deltasSeen, callOutcome, callOp, hadSession,
                   splitVars, poolVars, matchVars, parseVars, extractVars, mergeVars,
                   similarVars, streamVars>>

\* this.session = the session created: initialize() has completed.
SessionCreated ==
    /\ clientPc = "creating"
    /\ callOutcome # "pending"
    /\ clientPc' = "ready"
    /\ session' = "open"
    /\ UNCHANGED <<program, pc, progressEvents, requestsSent, charCount,
                   deltasSeen, callOutcome, callOp, hadSession,
                   splitVars, poolVars, matchVars, parseVars, extractVars, mergeVars,
                   similarVars, streamVars>>

\* cleanup(): await this.session.destroy()
Cleanup ==
    /\ clientPc = "ready"
    /\ callOutcome # "pending"
    /\ clientPc' = "destroying"
    /\ UNCHANGED <<session, program, pc, progressEvents, requestsSent, charCount,
                   deltasSeen, callOutcome, callOp, hadSession,
                   splitVars, poolVars, matchVars, parseVars, extractVars, mergeVars,
                   similarVars, streamVars>>

\* this.session = null; await this.client.stop(): cleanup() has completed.
SessionDestroyed ==
    /\ clientPc = "destroying"
    /\ callOutcome # "pending"
    /\ clientPc' = "stopped"
    /\ session' = "null"
    /\ UNCHANGED <<program, pc, progressEvents, requestsSent, charCount,
                   deltasSeen, callOutcome, callOp, hadSession,
                   splitVars, poolVars, matchVars, parseVars, extractVars, mergeVars,
                   similarVars, streamVars>>

\* A public analysis operation is called and runs to its first await, to
\* its return or to the exception that leaves it.
Invoke(name, kinds) ==
    /\ callOutcome # "pending"
    /\ callOp' = name
    /\ hadSession' = (session # "null")
    /\ program' = StepsOf(name, session, kinds)
    /\ deltasSeen' = 0
    /\ RunFrom(program', 1, <<>>, 0)
    /\ UNCHANGED <<clientPc, session,
                   splitVars, poolVars, matchVars, parseVars, extractVars, mergeVars,
                   similarVars, streamVars>>

\* The awaited request is answered with content: the call goes on.
OracleAnswers ==
    /\ callOutcome = "pending"
    /\ RunFrom(program, pc + 1, progressEvents, requestsSent)
    /\ UNCHANGED <<clientPc, session, program, deltasSeen, callOp, hadSession,
                   splitVars, poolVars, matchVars, parseVars, extractVars, mergeVars,
                   similarVars, streamVars>>

\* The methods that throw "No response received from Copilot" on a
\* response without content; the others fall back and go on.
ThrowsWithoutContent == {"analyzeLogContent", "analyzeLogFileDirect"}

\* The awaited request is answered without content.
OracleHasNoContent ==
    /\ callOutcome = "pending"
    /\ IF program[pc].via \in ThrowsWithoutContent
       THEN /\ callOutcome' = "failed"
            /\ pc' = 0
            /\ UNCHANGED <<progressEvents, requestsSent, charCount>>
       ELSE RunFrom(program, pc + 1, progressEvents, requestsSent)
    /\ UNCHANGED <<clientPc, session, program, deltasSeen, callOp, hadSession,
                   splitVars, poolVars, matchVars, parseVars, extractVars, mergeVars,
                   similarVars, streamVars>>

\* The awaited request rejects: the exception leaves the call.
OracleRejects ==
    /\ callOutcome = "pending"
    /\ callOutcome' = "failed"
    /\ pc' = 0
    /\ UNCHANGED <<clientPc, session, program, progressEvents, requestsSent, charCount,
                   deltasSeen, callOp, hadSession,
                   splitVars, poolVars, matchVars, parseVars, extractVars, mergeVars,
                   similarVars, streamVars>>

\* min(90, 20 + Math.round((charCount / 2000) * 70))
EstimatedProgress(chars) == Min(90, 20 + Round(chars * 70, 2000))

\* The session streams a message delta while analyzeLogContent awaits: its
\* handler counts the characters and emits a progress event.
OracleStreamsDelta(length) ==
    /\ callOutcome = "pending"
    /\ program[pc].via = "analyzeLogContent"
    /\ deltasSeen < MaxCallDeltas
    /\ deltasSeen' = deltasSeen + 1
    /\ charCount' = charCount + length
    /\ progressEvents' = Append(progressEvents,
                                [stage |-> "analyzing",
                                 progress |-> EstimatedProgress(charCount')])
    /\ UNCHANGED <<clientPc, session, program, pc, requestsSent, callOutcome, callOp,
                   hadSession,
                   splitVars, poolVars, matchVars, parseVars, extractVars, mergeVars,
                   similarVars, streamVars>>

(***************************************************************************)
(* SpecSplit: a text is read, split on line-feed and handed to             *)
(* splitIntoChunks (analyzeLogFileInChunks, analyzeLogBuffer).             *)
(***************************************************************************)
MaxTextLen == 5

MaxChunkSize == 4

MaxChunkLines == 3

TextAlphabet == {"a", "b", LF}

\* Scenario A of the specification at one thousandth of its line count and
\* a tenth of its line length: 12 lines of 8 characters, 5 lines per chunk,
\* and a size threshold that 5 lines fit in (as 5000 lines of 80 bytes fit
\* in 500 KB).
ScenarioALines == [i \in 1..12 |-> "abababab"]

ScenarioA == [content |-> JoinLines(ScenarioALines), chunkSize |-> 50, maxLines |-> 5]

SplitInputs ==
    {[content |-> t, chunkSize |-> s, maxLines |-> l] :
        t \in TextsUpTo(TextAlphabet, MaxTextLen),
        s \in 1..MaxChunkSize,
        l \in 1..MaxChunkLines}
    \cup {ScenarioA}

InitSplit ==
    /\ \E in \in SplitInputs :
          /\ content = in.content
          /\ chunkSize = in.chunkSize
          /\ maxLines = in.maxLines
    /\ chunks = <<>>
    /\ splitPc = "input"
    /\ IdlePool
    /\ IdleMatch
    /\ IdleParse
    /\ IdleExtract
    /\ IdleMerge
    /\ IdleSimilar
    /\ IdleStream
    /\ IdleCalls

IdleSplit ==
    /\ content = ""
    /\ chunkSize = 1
    /\ maxLines = 1
    /\ chunks = <<>>
    /\ splitPc = "idle"

\* const lines = content.split("\n"); const chunks = this.splitIntoChunks(lines)
SplitContent ==
    /\ splitPc = "input"
    /\ chunks' = splitIntoChunks(SplitLines(content), chunkSize, maxLines)
    /\ splitPc' = "done"
    /\ UNCHANGED <<content, chunkSize, maxLines, poolVars, matchVars,
                   parseVars, extractVars, mergeVars, similarVars,
                   streamVars,
                   callVars>>

NextSplit == SplitContent

SpecSplit == InitSplit /\ [][NextSplit]_vars

(***************************************************************************)
(* SpecPool: one chunked analysis of a text, by analyzeLogFileInChunks     *)
(* (parallelMap with limit P) or by analyzeLogBuffer (sequential).         *)
(***************************************************************************)
MaxPoolChunks == 3

MaxParallel == 3

\* What the oracle may answer with content.
ResponseTexts == {"r1", "r2"}

\* n one-character lines; with a size threshold of 4 and a line threshold of
\* 2 they are cut into chunks of two lines.
PoolText(n) == JoinLines([i \in 1..n |-> "a"])

InitPool ==
    /\ \E n \in 1..(2 * MaxPoolChunks) : content = PoolText(n)
    /\ chunkSize = 4
    /\ maxLines = 2
    /\ chunks = <<>>
    /\ splitPc = "input"
    /\ mode \in {"file", "buffer"}
    /\ mode = "buffer" => Len(content) > chunkSize
    /\ concurrency \in 1..MaxParallel
    /\ mode = "buffer" => concurrency = DEFAULT_PARALLEL_CHUNKS
    /\ callerPc = "start"
    /\ currentIndex = 0
    /\ results = <<>>
    /\ workerPc = <<>>
    /\ calls = {}
    /\ completedChunks = 0
    /\ aggregateArgs = <<>>
    /\ responses = <<>>
    /\ settleOrder = <<>>
    /\ claimed = {}
    /\ written = {}
    /\ IdleMatch
    /\ IdleParse
    /\ IdleExtract
    /\ IdleMerge
    /\ IdleSimilar
    /\ IdleStream
    /\ IdleCalls

NextPool ==
    \/ StartChunkedFile
    \/ \E w \in 1..MaxParallel, text \in ResponseTexts : ChunkSucceeds(w, text)
    \/ \E w \in 1..MaxParallel : ChunkHasNoContent(w)
    \/ \E w \in 1..MaxParallel : ChunkRejects(w)
    \/ PoolResolves
    \/ PoolRejects
    \/ StartChunkedBuffer
    \/ \E text \in ResponseTexts : BufferChunkSucceeds(text)
    \/ BufferChunkHasNoContent
    \/ BufferChunkRejects
    \/ AggregateReturns
    \/ AggregateRejects

SpecPool == InitPool /\ [][NextPool]_vars

\* The same calls with every parallelChunks the constructor accepts: it
\* stores options.parallelChunks unchecked, so zero and negative numbers too.
InitPoolAny ==
    /\ \E n \in 1..(2 * MaxPoolChunks) : content = PoolText(n)
    /\ chunkSize = 4
    /\ maxLines = 2
    /\ chunks = <<>>
    /\ splitPc = "input"
    /\ mode \in {"file", "buffer"}
    /\ mode = "buffer" => Len(content) > chunkSize
    /\ concurrency \in (0 - MaxParallel)..MaxParallel
    /\ mode = "buffer" => concurrency = DEFAULT_PARALLEL_CHUNKS
    /\ callerPc = "start"
    /\ currentIndex = 0
    /\ results = <<>>
    /\ workerPc = <<>>
    /\ calls = {}
    /\ completedChunks = 0
    /\ aggregateArgs = <<>>
    /\ responses = <<>>
    /\ settleOrder = <<>>
    /\ claimed = {}
    /\ written = {}
    /\ IdleMatch
    /\ IdleParse
    /\ IdleExtract
    /\ IdleMerge
    /\ IdleSimilar
    /\ IdleStream
    /\ IdleCalls

SpecPoolAny == InitPoolAny /\ [][NextPool]_vars


(***************************************************************************)
(* SpecMatch: findExactLineMatches on the contents of uploaded files       *)
(* (analyzeMultipleBuffers).  The inputs are every way to spread up to     *)
(* MaxTotalLines lines of a small catalogue over one to three files, under *)
(* file names that are all different or partly equal, and larger          *)
(* scenarios that reach the two caps.                                      *)
(***************************************************************************)
MaxTotalLines == 4

\* file.originalname of each upload: names may repeat.
NameSchemes ==
    { <<"a.log">>,
      <<"a.log", "b.log">>,
      <<"a.log", "a.log">>,
      <<"a.log", "b.log", "c.log">>,
      <<"a.log", "a.log", "b.log">> }

\* Where the files of an input end in the sequence of all its lines: file f
\* holds the lines after cut f - 1 up to cut f.
Cuts(nf, n) ==
    {cut \in [0..nf -> 0..n] :
        /\ cut[0] = 0
        /\ cut[nf] = n
        /\ \A f \in 1..nf : cut[f - 1] <= cut[f]}

FilesOf(names, lines, cut) ==
    [f \in 1..Len(names) |->
        [filename |-> names[f],
         content  |-> JoinLines(SubSeq(lines, cut[f - 1] + 1, cut[f]))]]

\* Concrete scenario C of the specification: the line twice in file A and
\* once in file B, and a second line in both files.
ScenarioC ==
    << [filename |-> "fileA.log",
        content  |-> JoinLines(<< "2024-01-01T00:00:00Z ERROR db down",
                                  "WARN disk almost full",
                                  "2024-01-01T00:00:00Z ERROR db down" >>)],
       [filename |-> "fileB.log",
        content  |-> JoinLines(<< "WARN disk almost full",
                                  "2024-01-01T00:00:00Z ERROR db down" >>)] >>

\* One line more often in a file than line numbers are shown for.
ManyOccurrences ==
    << [filename |-> "a.log",
        content  |-> JoinLines(<<"12:00:01 ok">>
                       \o Repeat("2024-01-01T00:00:00Z ERROR db down",
                                 MaxLineNumbersShown + 1)
                       \o <<"WARN disk almost full">>)],
       [filename |-> "b.log",
        content  |-> JoinLines(<< "[2024-01-02 10:20:30,123] error DB down",
                                  "WARN disk almost full",
                                  GenLine(1) >>)] >>

\* Two uploads with the same name (the same log from two hosts) and a third.
SameNamedUploads ==
    << [filename |-> "app.log",
        content  |-> JoinLines(<< "WARN disk almost full",
                                  "2024-01-01T00:00:00Z ERROR db down" >>)],
       [filename |-> "app.log",
        content  |-> JoinLines(<< "2024-01-02T10:20:30.123Z ERROR db down" >>)],
       [filename |-> "b.log",
        content  |-> JoinLines(<< "2024-01-01T00:00:00Z ERROR db down",
                                  "WARN disk almost full" >>)] >>

\* Lines with keywords of several categories, with keywords inside longer
\* words, and with every keyword of the five groups, in two files.
KeywordLines ==
    << "WARN retry failed again", "caution: info is stale", "INFO debug mode enabled",
       "Verbose trace started", "Crash of worker seven", "FATAL Exception at boot",
       "warning: errors were seen", "information for users", "Debug Warnings Error" >>

KeywordFiles ==
    << [filename |-> "one.log", content |-> JoinLines(KeywordLines)],
       [filename |-> "two.log",
        content  |-> JoinLines([i \in 1..Len(KeywordLines) |->
                                  KeywordLines[Len(KeywordLines) + 1 - i]])] >>

\* The lines a file of ManyGroups holds at most.
GroupsPerFile == 13

\* n different lines over pairs of files, GroupsPerFile lines to a pair, each
\* line in both files of its pair: last to first in the first file, first to
\* last in the second, where every third line occurs once more.
ManyGroups(n) ==
    LET pairs    == (n + GroupsPerFile - 1) \div GroupsPerFile
        low(p)   == (p - 1) * GroupsPerFile + 1
        high(p)  == Min(p * GroupsPerFile, n)
        first(p) == [i \in 1..(high(p) - low(p) + 1) |-> GenLine(high(p) + 1 - i)]
        again(p) == SelectSeq([i \in 1..(high(p) - low(p) + 1) |-> low(p) + i - 1],
                              LAMBDA k : k % 3 = 0)
        second(p) == [i \in 1..(high(p) - low(p) + 1) |-> GenLine(low(p) + i - 1)]
                        \o [i \in 1..Len(again(p)) |-> GenLine(again(p)[i])]
    IN  [f \in 1..(2 * pairs) |->
            IF f % 2 = 1
            THEN [filename |-> "first" \o TwoDigits((f + 1) \div 2) \o ".log",
                  content  |-> JoinLines(first((f + 1) \div 2))]
            ELSE [filename |-> "second" \o TwoDigits(f \div 2) \o ".log",
                  content  |-> JoinLines(second(f \div 2))]]

LargeMatchInputs ==
    {ScenarioC, ManyOccurrences, SameNamedUploads, KeywordFiles, ManyGroups(7),
     ManyGroups(MaxMatches + 2)}

InitMatch ==
    /\ \/ \E names \in NameSchemes, n \in 0..MaxTotalLines :
              \E lines \in [1..n -> Catalogue], cut \in Cuts(Len(names), n) :
                 fileContents = FilesOf(names, lines, cut)
       \/ fileContents \in LargeMatchInputs
    /\ lineMap = <<>>
    /\ filesRead = 0
    /\ exactMatches = <<>>
    /\ matchPc = "input"
    /\ IdleSplit
    /\ IdlePool
    /\ IdleParse
    /\ IdleExtract
    /\ IdleMerge
    /\ IdleSimilar
    /\ IdleStream
    /\ IdleCalls

NextMatch ==
    \/ TooFewFiles
    \/ ProcessFile
    \/ ReturnMatches

SpecMatch == InitMatch /\ [][NextMatch]_vars

(***************************************************************************)
(* SpecExtract: a section body is handed to extractListItems.              *)
(***************************************************************************)
MaxSectionLines == 3

\* The lines the section bodies are written from: entries in the three
\* bullet styles and the two numbered styles, bold headers with and without
\* a description, continuation lines indented by two spaces and by a tab, a
\* blank line, placeholders of the prompt template, the statement that
\* nothing was found, an entry that merely contains such a statement, and
\* a line that is no list entry.
SectionLines ==
    {"- disk full", "* retry storm", "@ cache miss", "1. slow query", "2) lock wait",
     "**Timeout**: db slow", "**Timeout**", "  on node 3", "\tsince noon", "",
     "- None found", "- found no patterns today", "- [List patterns here]",
     "- [placeholder]", "- see the list here", "plain words"}

\* A body in which the entry styles are mixed, with continuation lines and
\* a blank line.
MixedSection ==
    <<"- disk full", "  on node 3", "1. slow query", "\tsince noon", "",
      "**Timeout**: db slow", "  on node 3", "* retry storm", "2) lock wait",
      "@ cache miss">>

\* The same styles with the bold header that has no description.
MixedSectionShortHeader ==
    <<"1. slow query", "**Timeout**", "\tsince noon", "- disk full">>

SectionBodies ==
    {MixedSection, MixedSectionShortHeader}
        \cup UNION {[1..n -> SectionLines] : n \in 0..MaxSectionLines}

InitExtract ==
    /\ \E body \in SectionBodies : sectionText = JoinLines(body)
    /\ listItems = <<>>
    /\ extractPc = "input"
    /\ IdleSplit
    /\ IdlePool
    /\ IdleMatch
    /\ IdleParse
    /\ IdleMerge
    /\ IdleSimilar
    /\ IdleStream
    /\ IdleCalls

NextExtract == ExtractItems

SpecExtract == InitExtract /\ [][NextExtract]_vars

(***************************************************************************)
(* SpecParse: a response text is handed to parseAnalysisResponse.  The     *)
(* text is written from a sequence of sections: each section is its        *)
(* "## " heading on a line of its own followed by one "- item" line per    *)
(* item, or by the summary as free text, and a blank line separates two    *)
(* sections.                                                               *)
(***************************************************************************)
MaxListLen == 2

ItemTexts == {"disk full", "Db down"}

SummaryTexts == {"OK", "Two services failed.\nRestart both."}

\* The sequences of at most n elements of `set`.
ListsUpTo(set, n) == UNION {[1..k -> set] : k \in 0..n}

\* The sequences of distinct section names: every selection of sections in
\* every order.
SectionOrders ==
    {order \in ListsUpTo({SectionNames[i] : i \in 1..4}, 4) :
        \A i, j \in 1..Len(order) : order[i] = order[j] => i = j}

\* The lines of a section.
SectionLinesOf(section) ==
    <<"## " \o section.name>>
        \o (IF section.name = "SUMMARY" THEN <<section.text>>
            ELSE [i \in 1..Len(section.items) |-> "- " \o section.items[i]])

\* The text written from the sections.
RECURSIVE RenderSections(_, _)
RenderSections(sections, i) ==
    IF i > Len(sections) THEN ""
    ELSE JoinLines(SectionLinesOf(sections[i]))
            \o (IF i < Len(sections) THEN "\n\n" ELSE "")
            \o RenderSections(sections, i + 1)

\* The sections of a result, in the given order.
SectionsOf(result, order) ==
    [i \in 1..Len(order) |->
        [name |-> order[i],
         items |-> CASE order[i] = "PATTERNS" -> result.patterns
                     [] order[i] = "ANOMALIES" -> result.anomalies
                     [] order[i] = "ROOT CAUSES" -> result.rootCauses
                     [] order[i] = "SUMMARY" -> <<>>,
         text |-> IF order[i] = "SUMMARY" THEN result.summary ELSE ""]]

\* Responses without any of the four headings.
FreeTexts == {"", "No findings.", "# PATTERNS\n- disk full", "PATTERNS:\n- disk full"}

InitParse ==
    /\ \/ \E order \in SectionOrders,
             patterns \in ListsUpTo(ItemTexts, MaxListLen),
             anomalies \in ListsUpTo(ItemTexts, 1),
             rootCauses \in ListsUpTo(ItemTexts, 1),
             summary \in SummaryTexts :
            /\ sectionsSent = SectionsOf([patterns |-> patterns, anomalies |-> anomalies,
                                          rootCauses |-> rootCauses, summary |-> summary],
                                         order)
            /\ parseInput = RenderSections(sectionsSent, 1)
       \/ /\ sectionsSent = <<>>
          /\ parseInput \in FreeTexts
    /\ parseResult = EmptyResult
    /\ parsePc = "input"
    /\ IdleSplit
    /\ IdlePool
    /\ IdleMatch
    /\ IdleExtract
    /\ IdleMerge
    /\ IdleSimilar
    /\ IdleStream
    /\ IdleCalls

NextParse == ParseResponse

SpecParse == InitParse /\ [][NextParse]_vars

(***************************************************************************)
(* SpecMerge: the results of the chunks of one file are handed to          *)
(* aggregateChunkResults, and the oracle answers the consolidation         *)
(* request, answers it without content, or fails.                          *)
(***************************************************************************)
MaxMergeChunks == 2

\* The lists of findings of a chunk or of a file: with a repeated item and
\* with items that differ in case only.
FindingLists ==
    {<<>>, <<"disk full">>, <<"disk full", "Disk full">>, <<"db down", "disk full">>,
     <<"disk full", "disk full", "db down">>}

AnomalyLists == {<<>>, <<"slow query">>}

RootCauseLists == {<<>>, <<"lock wait", "lock wait">>}

ChunkFindings ==
    [patterns : FindingLists, anomalies : AnomalyLists, rootCauses : RootCauseLists]

ConsolidationTexts ==
    {"## PATTERNS\n- disk full\n\n## ANOMALIES\n- slow query\n\n## ROOT CAUSES\n- lock wait\n\n## SUMMARY\nDisk and locks.",
     "I could not consolidate the findings."}

InitMerge ==
    /\ \E n \in 1..MaxMergeChunks : \E findings \in [1..n -> ChunkFindings] :
          chunkResults = [i \in 1..n |->
                            [chunkId |-> i - 1,
                             patterns |-> findings[i].patterns,
                             anomalies |-> findings[i].anomalies,
                             rootCauses |-> findings[i].rootCauses]]
    /\ promptsSent = 0
    /\ aggregateResult = EmptyResult
    /\ aggregatePc = "input"
    /\ viaFallback = FALSE
    /\ IdleSplit
    /\ IdlePool
    /\ IdleMatch
    /\ IdleParse
    /\ IdleExtract
    /\ IdleSimilar
    /\ IdleStream
    /\ IdleCalls

NextMerge ==
    \/ AggregateSingleChunk
    \/ SendConsolidation
    \/ \E text \in ConsolidationTexts : ConsolidationAnswers(text)
    \/ ConsolidationHasNoContent
    \/ ConsolidationRejects

SpecMerge == InitMerge /\ [][NextMerge]_vars

(***************************************************************************)
(* SpecSimilar: the per-file results are handed to findSimilarities, and   *)
(* the oracle answers the comparison request, answers it without content,  *)
(* or fails.                                                               *)
(***************************************************************************)
MaxSimilarFiles == 2

FileNames == <<"app.log", "db.log", "web.log", "auth.log">>

ComparisonTexts ==
    {"## SHARED PATTERNS\n- disk full\n\n## CORRELATIONS\n- both fail at noon",
     "I found nothing in common."}

InitSimilar ==
    /\ \E n \in 1..MaxSimilarFiles : \E findings \in [1..n -> ChunkFindings] :
          fileResults = [i \in 1..n |->
                            [filename |-> FileNames[i],
                             analysis |-> [patterns |-> findings[i].patterns,
                                           anomalies |-> findings[i].anomalies,
                                           rootCauses |-> findings[i].rootCauses,
                                           summary |-> "OK"]]]
    /\ similarityResult = NoSimilarities
    /\ similarPc = "input"
    /\ similarVia = "none"
    /\ IdleSplit
    /\ IdlePool
    /\ IdleMatch
    /\ IdleParse
    /\ IdleExtract
    /\ IdleMerge
    /\ IdleStream
    /\ IdleCalls

NextSimilar ==
    \/ TooFewFileResults
    \/ SendComparison
    \/ \E text \in ComparisonTexts : ComparisonAnswers(text)
    \/ ComparisonHasNoContent
    \/ ComparisonRejects

SpecSimilar == InitSimilar /\ [][NextSimilar]_vars

(***************************************************************************)
(* Specification of the streamed exchanges: the calls of analyzeLogContent *)
(* a worker pool has in flight on the session (one call without a pool).   *)
(***************************************************************************)
\* The calls in flight at most.
MaxExchanges == 2

DeltaTexts == {"ab", "c"}

ReasoningTexts == {"hm"}

\* What a terminal response holds: the text of the deltas "ab" and "c", and
\* not the text of any other deltas.
TerminalTexts == {"abc"}

InitStream ==
    /\ \E n \in 1..MaxExchanges :
          /\ exchangePc = [e \in 1..n |-> "start"]
          /\ fullResponse = [e \in 1..n |-> ""]
          /\ terminalResponse = [e \in 1..n |-> [kind |-> "none", content |-> ""]]
          /\ parserCalls = [e \in 1..n |-> <<>>]
    /\ subscribers = <<>>
    /\ deltasSent = <<>>
    /\ streamingEvents = <<>>
    /\ IdleSplit
    /\ IdlePool
    /\ IdleMatch
    /\ IdleParse
    /\ IdleExtract
    /\ IdleMerge
    /\ IdleSimilar
    /\ IdleCalls

NextStream ==
    \/ \E e \in 1..MaxExchanges : BeginExchange(e)
    \/ \E e \in 1..MaxExchanges, d \in DeltaTexts : MessageDelta(e, d)
    \/ \E e \in 1..MaxExchanges, d \in ReasoningTexts : ReasoningDelta(e, d)
    \/ \E e \in 1..MaxExchanges, text \in TerminalTexts : ExchangeAnswers(e, text)
    \/ \E e \in 1..MaxExchanges : ExchangeHasNoContent(e)
    \/ \E e \in 1..MaxExchanges : ExchangeRejects(e)

SpecStream == InitStream /\ [][NextStream]_vars

(***************************************************************************)
(* Specification of the session and the analysis calls: the analyzer is    *)
(* constructed, initialized and cleaned up, and public analysis operations *)
(* are called in between, one at a time.                                   *)
(***************************************************************************)
\* The files or buffers handed to a multi-file call at most.
MaxFiles == 2

DeltaLengths == {10, 1500}

Operations ==
    {"analyzeLogFile", "analyzeLogFileInChunks", "analyzeLogContent", "analyzeLogBuffer",
     "analyzeMultipleLogFiles", "analyzeMultipleBuffers"}

\* Sequences of at most n elements of S.
KindsUpTo(S, n) == UNION {[1..k -> S] : k \in 0..n}

\* What the operation can be called with: a path of a missing, small or
\* large file, a small or large buffer, or a list of them.
ArgumentsOf(name) ==
    CASE name = "analyzeLogFile" -> [1..1 -> {"missing", "small", "large"}]
      [] name = "analyzeLogFileInChunks" -> [1..1 -> {"small", "large"}]
      [] name = "analyzeLogContent" -> {<<>>}
      [] name = "analyzeLogBuffer" -> [1..1 -> {"small", "large"}]
      [] name = "analyzeMultipleLogFiles" -> KindsUpTo({"missing", "small", "large"}, MaxFiles)
      [] name = "analyzeMultipleBuffers" -> KindsUpTo({"small", "large"}, MaxFiles)

InitCalls ==
    /\ IdleCalls
    /\ IdleSplit
    /\ IdlePool
    /\ IdleMatch
    /\ IdleParse
    /\ IdleExtract
    /\ IdleMerge
    /\ IdleSimilar
    /\ IdleStream

NextCalls ==
    \/ Initialize
    \/ ClientStarted
    \/ SessionCreated
    \/ Cleanup
    \/ SessionDestroyed
    \/ \E name \in Operations : \E kinds \in ArgumentsOf(name) : Invoke(name, kinds)
    \/ OracleAnswers
    \/ OracleHasNoContent
    \/ OracleRejects
    \/ \E length \in DeltaLengths : OracleStreamsDelta(length)

SpecCalls == InitCalls /\ [][NextCalls]_vars

(***************************************************************************)
(* Properties of the chunk splitter                                        *)
(***************************************************************************)
\* The lines handed to splitIntoChunks.
InputLines == SplitLines(content)

ChunkContents == [i \in 1..Len(chunks) |-> chunks[i].content]

\* The lines a chunk's content holds.
ChunkLines(c) == SplitLines(c.content)

RECURSIVE SumLineSizes(_)
SumLineSizes(ls) ==
    IF Len(ls) = 0 THEN 0 ELSE LineSize(Head(ls)) + SumLineSizes(Tail(ls))

\* C1: joining the contents of the emitted chunks, in order, with a
\* line-feed between consecutive chunks gives back the original text exactly.
C1_RejoinReproducesText ==
    splitPc = "done" => JoinLines(ChunkContents) = content

\* C1 witness: a text with two different lines was cut into several chunks,
\* one of them holding more than one line.
C1_Witness ==
    /\ splitPc = "done"
    /\ Len(chunks) >= 2
    /\ \E i \in 1..Len(chunks) : Len(ChunkLines(chunks[i])) >= 2
    /\ \E i, j \in 1..Len(InputLines) : InputLines[i] # InputLines[j]

\* C2: the line ranges are 1-indexed, inclusive and contiguous: the first
\* starts at 1, each next one starts right after the previous one ends, the
\* last ends at the number of input lines, and a range is as long as the
\* number of lines of its chunk's content.  Scenario A gives exactly the
\* ranges 1-5, 6-10, 11-12 (1-5000, 5001-10000, 10001-12000 at full scale).
C2_RangesContiguous ==
    splitPc = "done" =>
        /\ Len(chunks) >= 1
        /\ chunks[1].lineRange.start = 1
        /\ chunks[Len(chunks)].lineRange.end = Len(InputLines)
        /\ \A i \in 1..(Len(chunks) - 1) :
              chunks[i + 1].lineRange.start = chunks[i].lineRange.end + 1
        /\ \A i \in 1..Len(chunks) :
              /\ chunks[i].lineRange.start <= chunks[i].lineRange.end
              /\ chunks[i].lineRange.end - chunks[i].lineRange.start + 1
                    = Len(ChunkLines(chunks[i]))
        /\ (content = ScenarioA.content /\ chunkSize = ScenarioA.chunkSize
                /\ maxLines = ScenarioA.maxLines)
              => [i \in 1..Len(chunks) |-> chunks[i].lineRange]
                    = << [start |-> 1, end |-> 5], [start |-> 6, end |-> 10],
                         [start |-> 11, end |-> 12] >>

\* C2 witness: scenario A has been split into three chunks.
C2_Witness ==
    /\ splitPc = "done"
    /\ content = ScenarioA.content
    /\ maxLines = ScenarioA.maxLines
    /\ Len(chunks) = 3

\* C3: a chunk has at most L lines, and its counted size (the sum of
\* len(line)+1 over its lines) is at most S unless it holds exactly one line;
\* a line whose counted size exceeds S is emitted as a chunk of its own.
C3_ChunkBounds ==
    splitPc = "done" =>
        /\ \A i \in 1..Len(chunks) :
              /\ Len(ChunkLines(chunks[i])) <= maxLines
              /\ \/ SumLineSizes(ChunkLines(chunks[i])) <= chunkSize
                 \/ Len(ChunkLines(chunks[i])) = 1
        /\ \A n \in 1..Len(InputLines) :
              LineSize(InputLines[n]) > chunkSize =>
                  \E i \in 1..Len(chunks) :
                      /\ chunks[i].lineRange = [start |-> n, end |-> n]
                      /\ chunks[i].content = InputLines[n]

\* C3 witness: an oversized line stands alone between chunks, and another
\* chunk holds as many lines as the line threshold allows.
C3_Witness ==
    /\ splitPc = "done"
    /\ maxLines >= 2
    /\ \E i \in 1..Len(chunks) :
          /\ Len(ChunkLines(chunks[i])) = 1
          /\ SumLineSizes(ChunkLines(chunks[i])) > chunkSize
    /\ \E i \in 1..Len(chunks) : Len(ChunkLines(chunks[i])) = maxLines

(***************************************************************************)
(* Properties of the chunked analysis                                      *)
(***************************************************************************)
\* The chunks whose request settled by rejecting or without content.
FailedChunks ==
    {i \in DOMAIN responses :
        responses[i].kind # "none" /\ ~HasContent(responses[i])}

\* C4: at every moment the number of chunk requests started and not yet
\* settled is at most min(P, N), and no worker has two requests in flight
\* (it sends its next request only once the previous one has settled).
C4_InFlightBounded ==
    /\ Cardinality(calls) <= Min(concurrency, Len(chunks))
    /\ \A w \in DOMAIN workerPc : Cardinality({c \in calls : c.worker = w}) <= 1
    /\ \A c \in calls : mode = "file" => workerPc[c.worker] = "await"

\* C4 witness: fewer workers than chunks, one request already settled, and
\* the limit P is reached again by the requests in flight.
C4_Witness ==
    /\ mode = "file"
    /\ concurrency >= 2
    /\ concurrency < Len(chunks)
    /\ completedChunks >= 1
    /\ Cardinality(calls) = concurrency

\* C5: when parallelMap resolves, position i of the array it returns holds
\* the result built for chunk i from the oracle's answer to chunk i's request
\* (chunkId i, chunk i's line range), whatever the order of completion; and
\* a worker writes only slots of indices it claimed.
C5_ResultsByChunkIndex ==
    mode = "file" =>
        /\ written \subseteq claimed
        /\ \A k \in 1..Len(aggregateArgs) :
              /\ Len(aggregateArgs[k]) = Len(chunks)
              /\ \A i \in 1..Len(chunks) :
                    /\ aggregateArgs[k][i].chunkId = i - 1
                    /\ aggregateArgs[k][i].lineRange = chunks[i].lineRange
                    /\ HasContent(responses[i])
                    /\ aggregateArgs[k][i].response = responses[i].content

\* C5 witness: parallelMap resolved although a later chunk's request settled
\* before an earlier chunk's, with different answers.
C5_Witness ==
    /\ mode = "file"
    /\ Len(aggregateArgs) = 1
    /\ \E k \in 1..(Len(settleOrder) - 1) : settleOrder[k] > settleOrder[k + 1]
    /\ \E i, j \in 1..Len(chunks) : responses[i].content # responses[j].content

\* C6: once the request of any chunk has rejected or settled without
\* content, aggregateChunkResults has not been and is never invoked and the
\* analysis never returns a result; it fails (at once in the sequential loop,
\* and in the pool the rejection of Promise.all is the only way on).
C6_FailureFailsWholeAnalysis ==
    FailedChunks # {} =>
        /\ aggregateArgs = <<>>
        /\ callerPc \in {"awaitPool", "failed"}
        /\ mode = "buffer" => callerPc = "failed"
        /\ callerPc = "awaitPool" => (ENABLED PoolRejects) /\ ~(ENABLED PoolResolves)

\* C6 witness: the analysis has failed on one chunk while results of other
\* chunks were already stored.
C6_Witness ==
    /\ mode = "file"
    /\ callerPc = "failed"
    /\ FailedChunks # {}
    /\ completedChunks >= 1
    /\ \E i \in DOMAIN results : results[i] # Hole

(***************************************************************************)
(* Properties of the exact-line matcher                                    *)
(* The result is compared with the input read anew: the key of every line  *)
(* of every input file, file by file (a file is an entry of the input).    *)
(***************************************************************************)
\* The key a line is grouped under, "" when the line is skipped.
KeyOfLine(rawLine) ==
    LET originalLine == Trim(rawLine)
        normalized   == NormalizedOf(originalLine)
    IN  IF SkipOriginal(originalLine) \/ Len(normalized) < MinLineLength
        THEN ""
        ELSE normalized

KeysOfLines(lines) == [i \in 1..Len(lines) |-> KeyOfLine(lines[i])]

\* The lines of the input files from file f on, trimmed.
RECURSIVE MatchLinesFrom(_)
MatchLinesFrom(f) ==
    IF f > Len(fileContents) THEN <<>>
    ELSE LET lines == SplitLines(fileContents[f].content)
         IN  <<[i \in 1..Len(lines) |-> Trim(lines[i])]>> \o MatchLinesFrom(f + 1)

\* keys[f][i] is the key of line i of input file f.
RECURSIVE KeysFrom(_)
KeysFrom(f) ==
    IF f > Len(fileContents) THEN <<>>
    ELSE <<KeysOfLines(SplitLines(fileContents[f].content))>> \o KeysFrom(f + 1)

AllKeys(keys) ==
    UNION {{keys[f][i] : i \in 1..Len(keys[f])} : f \in 1..Len(keys)} \ {""}

\* The input files holding a line with the key.
FilesWith(keys, key) ==
    {f \in 1..Len(keys) : \E i \in 1..Len(keys[f]) : keys[f][i] = key}

\* The groups that occur in two files or more.
QualifyingKeys(keys) == {key \in AllKeys(keys) : Cardinality(FilesWith(keys, key)) >= 2}

\* The 1-indexed numbers of the lines of file f with the key, ascending.
LineNumbersIn(keys, f, key) ==
    LET numbers == {i \in 1..Len(keys[f]) : keys[f][i] = key}
    IN  [n \in 1..Cardinality(numbers) |->
            CHOOSE i \in numbers : Cardinality({j \in numbers : j <= i}) = n]

\* The number of lines with the key in the files from f on.
RECURSIVE TotalLinesFrom(_, _, _)
TotalLinesFrom(keys, key, f) ==
    IF f > Len(keys) THEN 0
    ELSE Len(LineNumbersIn(keys, f, key)) + TotalLinesFrom(keys, key, f + 1)

FirstN(seq, n) == SubSeq(seq, 1, Min(n, Len(seq)))

\* The first line with the key in the order the files are read.
FirstLineWith(keys, lines, key) ==
    LET f == CHOOSE g \in FilesWith(keys, key) : \A h \in FilesWith(keys, key) : g <= h
    IN  lines[f][Head(LineNumbersIn(keys, f, key))]

\* a stands before b, or level with it, in the order of the result.
RanksNoLater(categoryA, countA, categoryB, countB) ==
    \/ CategoryOrder(categoryA) < CategoryOrder(categoryB)
    \/ CategoryOrder(categoryA) = CategoryOrder(categoryB) /\ countA >= countB

\* t is an ISO-8601 date and time: YYYY-MM-DD, T, hh:mm:ss, an optional
\* fraction of a second and an optional Z.
IsIsoTimestamp(t) ==
    /\ DateTimeAt(t, 1)
    /\ CharAt(t, 11) = "T"
    /\ AfterZulu(t, AfterFraction(t, 20)) = Len(t) + 1

\* line is an ISO-8601 timestamp, a space and body.
IsStamped(line, body) ==
    /\ Len(line) > Len(body) + 1
    /\ SubSeq(line, Len(line) - Len(body) + 1, Len(line)) = body
    /\ CharAt(line, Len(line) - Len(body)) = " "
    /\ IsIsoTimestamp(SubSeq(line, 1, Len(line) - Len(body) - 1))

\* The two lines are identical except for a leading ISO-8601 timestamp.
SameButForTimestamp(a, b) ==
    \E n \in MinLineLength..Min(Len(a), Len(b)) :
        LET body == SubSeq(a, Len(a) - n + 1, Len(a))
        IN  IsStamped(a, body) /\ IsStamped(b, body)

\* C7: a line whose normalized form occurs in only one file is never
\* reported; every reported match occurs in at least two distinct files; and
\* the result is empty unless at least two groups qualify, so that it never
\* has exactly one entry.
C7_CrossFileThreshold ==
    matchPc = "done" =>
        LET keys  == KeysFrom(1)
            lines == MatchLinesFrom(1)
        IN  /\ \A f \in 1..Len(keys) : \A i \in 1..Len(keys[f]) :
                  Cardinality(FilesWith(keys, keys[f][i])) <= 1 =>
                      \A k \in 1..Len(exactMatches) :
                          /\ exactMatches[k].line # lines[f][i]
                          /\ KeyOfLine(exactMatches[k].line) # keys[f][i]
            /\ \A k \in 1..Len(exactMatches) :
                  /\ Cardinality(FilesWith(keys, KeyOfLine(exactMatches[k].line))) >= 2
                  /\ Cardinality({exactMatches[k].occurrences[o].filename :
                                    o \in 1..Len(exactMatches[k].occurrences)}) >= 2
            /\ Len(exactMatches) # 1
            /\ exactMatches # <<>> => Cardinality(QualifyingKeys(keys)) >= 2

\* C7 witness: matches are reported while the input also holds a line whose
\* normalized form occurs in one file only.
C7_Witness ==
    /\ matchPc = "done"
    /\ exactMatches # <<>>
    /\ LET keys == KeysFrom(1)
       IN  \E key \in AllKeys(keys) : Cardinality(FilesWith(keys, key)) = 1

\* C8: when two lines that are identical except for a leading ISO-8601
\* timestamp stand in two different files, and at least one other group
\* qualifies, exactly one match is reported for them; its totalCount is the
\* number of lines of the group over all files (2 for one line in each of
\* two files, 3 for two lines in file A and one in file B), and it has an
\* occurrence for each file holding the line, with that file's line numbers.
C8_TimestampVariantsGrouped ==
    matchPc = "done" =>
        LET keys  == KeysFrom(1)
            lines == MatchLinesFrom(1)
        IN  \A f, g \in 1..Len(keys) : \A i \in 1..Len(keys[f]), j \in 1..Len(keys[g]) :
                ( /\ f # g
                  /\ SameButForTimestamp(lines[f][i], lines[g][j])
                  /\ \E other \in QualifyingKeys(keys) : other # keys[f][i] )
                =>
                \E k \in 1..Len(exactMatches) :
                    /\ KeyOfLine(exactMatches[k].line) = keys[f][i]
                    /\ KeyOfLine(exactMatches[k].line) = keys[g][j]
                    /\ \A k2 \in 1..Len(exactMatches) :
                          KeyOfLine(exactMatches[k2].line) = keys[f][i] => k2 = k
                    /\ exactMatches[k].totalCount = TotalLinesFrom(keys, keys[f][i], 1)
                    /\ \A h \in FilesWith(keys, keys[f][i]) :
                          \E o \in 1..Len(exactMatches[k].occurrences) :
                              /\ exactMatches[k].occurrences[o].filename
                                    = fileContents[h].filename
                              /\ exactMatches[k].occurrences[o].lineNumbers
                                    = FirstN(LineNumbersIn(keys, h, keys[f][i]),
                                             MaxLineNumbersShown)

\* C9: every reported match has at least 2 occurrences and at most as many
\* as there are input files; the lineNumbers of each occurrence are the first
\* 10 1-indexed numbers, ascending, of the lines of that file that belong to
\* the group; and totalCount is the uncapped number of lines of the group
\* over all files, hence at least the sum of the lengths of the lineNumbers.
C9_MatchInvariants ==
    matchPc = "done" =>
        LET keys == KeysFrom(1)
        IN  \A k \in 1..Len(exactMatches) :
                LET m   == exactMatches[k]
                    key == KeyOfLine(m.line)
                IN  /\ Len(m.occurrences) >= 2
                    /\ Len(m.occurrences) <= Len(fileContents)
                    /\ \A o \in 1..Len(m.occurrences) :
                          /\ Len(m.occurrences[o].lineNumbers) <= MaxLineNumbersShown
                          /\ \A n \in 1..(Len(m.occurrences[o].lineNumbers) - 1) :
                                m.occurrences[o].lineNumbers[n]
                                    < m.occurrences[o].lineNumbers[n + 1]
                          /\ \E f \in FilesWith(keys, key) :
                                /\ fileContents[f].filename = m.occurrences[o].filename
                                /\ m.occurrences[o].lineNumbers
                                      = FirstN(LineNumbersIn(keys, f, key),
                                               MaxLineNumbersShown)
                    /\ m.totalCount = TotalLinesFrom(keys, key, 1)
                    /\ m.totalCount >= SumOfLengths(m.occurrences)

\* C10: the result is sorted by category priority (error, warning, info,
\* debug, other) and within a category by descending totalCount; it has at
\* most 50 entries, and they are the first 50 of the sorted list of the
\* qualifying groups: one entry for each of min(50, number of qualifying
\* groups) different groups, and no group left out stands before a group
\* that is kept.
C10_SortedAndCapped ==
    matchPc = "done" =>
        LET keys       == KeysFrom(1)
            lines      == MatchLinesFrom(1)
            qualifying == QualifyingKeys(keys)
            kept       == {KeyOfLine(exactMatches[k].line) : k \in 1..Len(exactMatches)}
        IN  /\ \A k \in 1..(Len(exactMatches) - 1) :
                  RanksNoLater(exactMatches[k].category, exactMatches[k].totalCount,
                               exactMatches[k + 1].category, exactMatches[k + 1].totalCount)
            /\ Len(exactMatches) <= MaxMatches
            /\ kept \subseteq qualifying
            /\ Cardinality(kept) = Len(exactMatches)
            /\ Cardinality(qualifying) >= MinMatches =>
                  Len(exactMatches) = Min(MaxMatches, Cardinality(qualifying))
            /\ \A k \in 1..Len(exactMatches) :
                  /\ exactMatches[k].category
                        = CategoryOf(FirstLineWith(keys, lines, KeyOfLine(exactMatches[k].line)))
                  /\ exactMatches[k].totalCount
                        = TotalLinesFrom(keys, KeyOfLine(exactMatches[k].line), 1)
            /\ \A key \in qualifying \ kept : \A k \in 1..Len(exactMatches) :
                  RanksNoLater(exactMatches[k].category, exactMatches[k].totalCount,
                               CategoryOf(FirstLineWith(keys, lines, key)),
                               TotalLinesFrom(keys, key, 1))

(***************************************************************************)
(* Properties of the response parser                                       *)
(***************************************************************************)
\* The items the response was written with under the heading `name`
\* (none when the heading was not written).
SentItems(name) ==
    LET at == {i \in 1..Len(sectionsSent) : sectionsSent[i].name = name}
    IN  IF at = {} THEN <<>> ELSE sectionsSent[First(at)].items

\* The summary the response was written with ("" without the heading).
SentSummary ==
    LET at == {i \in 1..Len(sectionsSent) : sectionsSent[i].name = "SUMMARY"}
    IN  IF at = {} THEN "" ELSE sectionsSent[First(at)].text

\* The result the response was written from.
SentResult ==
    [patterns |-> SentItems("PATTERNS"),
     anomalies |-> SentItems("ANOMALIES"),
     rootCauses |-> SentItems("ROOT CAUSES"),
     summary |-> SentSummary]

\* The same four sections written in the order PATTERNS, ANOMALIES,
\* ROOT CAUSES, SUMMARY.
InHeadingOrder == RenderSections(SectionsOf(SentResult, SectionNames), 1)

\* C11: the order of the four sections does not change the result.  Once a
\* response holding the four sections has been parsed, the result equals the
\* result of parsing the same four sections written in the order PATTERNS,
\* ANOMALIES, ROOT CAUSES, SUMMARY; in particular the summary is the same
\* whether or not other sections follow the SUMMARY section.
C11_SectionOrderIrrelevant ==
    (parsePc = "done" /\ Len(sectionsSent) = 4)
        => parseResult = parseAnalysisResponse(InHeadingOrder)

\* The headings the response was written with, in their order.
SentNames == [i \in 1..Len(sectionsSent) |-> sectionsSent[i].name]

\* C12: writing a result as the four headings PATTERNS, ANOMALIES, ROOT
\* CAUSES, SUMMARY, with one "- item" line per item and the summary as free
\* text, and parsing that text gives the result back: the same items in the
\* same order, duplicates kept, and the same summary.
C12_RenderThenParse ==
    (parsePc = "done" /\ SentNames = SectionNames) => parseResult = SentResult

\* C13: parsing never fails: every response has a result with the three lists
\* and the summary.  A response holding none or only some of the four
\* sections gives exactly the contents of the sections it holds: the list or
\* the summary of every section without a heading is empty.
C13_PartialResponses ==
    /\ parsePc = "input" =>
          DOMAIN parseAnalysisResponse(parseInput)
              = {"patterns", "anomalies", "rootCauses", "summary"}
    /\ (parsePc = "done" /\ Len(sectionsSent) < 4) => parseResult = SentResult

(***************************************************************************)
(* Properties of the list extraction                                       *)
(***************************************************************************)
\* The lines of the section body handed to extractListItems.
BodyLines == SplitLines(sectionText)

\* The body without its last line.
BodyBeforeLast == JoinLines(SubSeq(BodyLines, 1, Len(BodyLines) - 1))

\* C14: a line of the form **phrase**: description closes the open item and
\* starts a new item whose text is exactly "**phrase**: description", and a
\* line **phrase** without description starts a new item whose text is
\* exactly "phrase".  Stated for a body whose last line is such a header: the
\* items are the items of the lines before it followed by that one item.
C14_BoldHeaderStartsItem ==
    LET header == BoldMatch(Trim(BodyLines[Len(BodyLines)]))
    IN  (extractPc = "done" /\ header.matched)
            => listItems = extractListItems(BodyBeforeLast) \o <<BoldItem(header)>>

\* What the final filter is to remove: empty strings, items containing
\* "[List", items containing "list here" in any case, wholly bracketed items,
\* and items equal in any case to one of the negative phrases.
IsPlaceholder(item) ==
    \/ item = ""
    \/ Includes(item, "[List")
    \/ Includes(ToLowerCase(item), "list here")
    \/ WhollyBracketed(item)
    \/ ToLowerCase(item) \in NegativePhrases

IsNoPlaceholder(item) == ~IsPlaceholder(item)

\* C15: the final filter removes exactly the placeholders, so an item that
\* merely contains a negative phrase inside a longer text is kept: the items
\* returned are the items collected from the lines, in their order, without
\* the placeholders.
C15_FilterRemovesPlaceholdersOnly ==
    extractPc = "done"
        => listItems = SelectSeq(CollectedItems(sectionText), IsNoPlaceholder)

\* The text of a list entry after its marker ("" when the line is no bullet
\* or numbered entry), and whether the line is a bold header.
EntryText(line) ==
    LET trimmed == Trim(line)
        digits == RunLength(trimmed, 1, DigitChars)
    IN  IF CharIn(trimmed, 1, {"-", Bullet}) \/ (CharIn(trimmed, 1, {"*"}) /\ ~CharIn(trimmed, 2, {"*"}))
        THEN Trim(Drop(trimmed, 2))
        ELSE IF digits >= 1 /\ CharIn(trimmed, digits + 1, {".", ")"})
        THEN Trim(Drop(trimmed, digits + 2))
        ELSE ""

IsBoldHeader(line) ==
    LET trimmed == Trim(line)
    IN  StartsWith(trimmed, "**") /\ Len(trimmed) >= 5
            /\ Includes(Drop(trimmed, 4), "**")

IsEntry(line) == EntryText(line) # "" \/ IsBoldHeader(line)

IsBlank(line) == Trim(line) = ""

\* An indented line that is no list entry.
IsIndented(line) ==
    /\ StartsWith(line, "  ") \/ StartsWith(line, "\t")
    /\ ~IsBlank(line)
    /\ ~IsEntry(line)

\* The body is made of list entries, blank lines and indented lines, and
\* every indented line follows an open item.
IsMixedList(lines) ==
    \A i \in 1..Len(lines) :
        \/ IsEntry(lines[i])
        \/ IsBlank(lines[i])
        \/ IsIndented(lines[i]) /\ i > 1 /\ ~IsBlank(lines[i - 1])

\* The indented lines that directly follow line i, each after one space.
RECURSIVE Continuation(_, _)
Continuation(lines, i) ==
    IF i + 1 <= Len(lines) /\ IsIndented(lines[i + 1])
    THEN " " \o Trim(lines[i + 1]) \o Continuation(lines, i + 1)
    ELSE ""

\* The positions of the list entries, in source order.
EntryPositions(lines) ==
    LET at == {i \in 1..Len(lines) : IsEntry(lines[i])}
    IN  [k \in 1..Cardinality(at) |->
            CHOOSE i \in at : Cardinality({j \in at : j <= i}) = k]

\* A list entry with its continuation is a placeholder (a bold header never
\* is).
IsPlaceholderEntry(lines, i) ==
    ~IsBoldHeader(lines[i]) /\ IsPlaceholder(EntryText(lines[i]) \o Continuation(lines, i))

\* s ends with t.
EndsWith(s, t) == Len(t) <= Len(s) /\ SubSeq(s, Len(s) - Len(t) + 1, Len(s)) = t

\* C16: in a body that mixes bullet, numbered and bold-header entries,
\* there is exactly one item per list entry (placeholders apart), in source
\* order; the indented lines after an entry are appended to its item, each
\* after one space, and a blank line closes the item.
C16_OneItemPerEntry ==
    LET lines == BodyLines
        all == EntryPositions(lines)
        entries == SelectSeq(all, LAMBDA i : ~IsPlaceholderEntry(lines, i))
    IN  (extractPc = "done" /\ IsMixedList(lines)) =>
            /\ Len(listItems) = Len(entries)
            /\ \A k \in 1..Len(entries) :
                  LET i == entries[k]
                  IN  IF IsBoldHeader(lines[i])
                      THEN /\ EndsWith(listItems[k], Continuation(lines, i))
                           /\ Len(listItems[k]) > Len(Continuation(lines, i))
                      ELSE listItems[k] = EntryText(lines[i]) \o Continuation(lines, i)

(***************************************************************************)
(* Properties of the consolidation of chunk results                        *)
(***************************************************************************)
ListFields == {"patterns", "anomalies", "rootCauses"}

\* The list `field` of the chunks from the i-th chunk on, one after the other.
RECURSIVE FindingsFrom(_, _, _)
FindingsFrom(chunkList, field, i) ==
    IF i > Len(chunkList) THEN <<>>
    ELSE chunkList[i][field] \o FindingsFrom(chunkList, field, i + 1)

AllFindings(field) == FindingsFrom(chunkResults, field, 1)

\* Where value occurs first in the sequence.
FirstAt(seq, value) == First({i \in 1..Len(seq) : seq[i] = value})

\* `merged` holds every string of `all` once, in the order in which the
\* strings occur first in `all`; strings are compared with their case.
IsUnionInFirstSeenOrder(merged, all) ==
    /\ {merged[i] : i \in 1..Len(merged)} = {all[i] : i \in 1..Len(all)}
    /\ \A i, j \in 1..Len(merged) :
          i < j => FirstAt(all, merged[i]) < FirstAt(all, merged[j])

SameLists(a, b) == \A field \in ListFields : a[field] = b[field]

\* C17: the fallback merge returns, for each of the three lists, the union
\* of the chunks' lists in first-seen order without two equal strings, with
\* a summary that states the number of chunks; merging its own output again,
\* alone or twice over, gives the same three lists.
C17_FallbackMergeIsOrderedUnion ==
    (aggregatePc = "resolved" /\ viaFallback) =>
        /\ \A field \in ListFields :
              IsUnionInFirstSeenOrder(aggregateResult[field], AllFindings(field))
        /\ aggregateResult.summary
              = "Analyzed " \o Decimal(Len(chunkResults)) \o " segments of the log file."
        /\ SameLists(mergeChunkResultsManually(<<aggregateResult>>), aggregateResult)
        /\ SameLists(mergeChunkResultsManually(<<aggregateResult, aggregateResult>>),
                     aggregateResult)

\* The fallback has merged chunks that repeat a string, within a chunk and
\* across chunks, and that hold two strings differing in case only.
C17_Witness ==
    /\ aggregatePc = "resolved"
    /\ viaFallback
    /\ Len(chunkResults) >= 2
    /\ Occurs(chunkResults[1].patterns, "disk full")
    /\ Occurs(chunkResults[2].patterns, "disk full")
    /\ Len(aggregateResult.patterns) < Len(AllFindings("patterns"))
    /\ Len(aggregateResult.rootCauses) < Len(AllFindings("rootCauses"))
    /\ Occurs(aggregateResult.patterns, "Disk full")
    /\ Occurs(aggregateResult.patterns, "disk full")

\* C18: with two or more chunk results, aggregateChunkResults does not fail
\* when the consolidation request cannot be served (the request fails, or
\* the response has no content): it returns the fallback merge of the chunks.
C18_FallbackAbsorbsUnavailability ==
    Len(chunkResults) >= 2 =>
        /\ aggregatePc # "rejected"
        /\ (aggregatePc = "resolved" /\ viaFallback)
              => aggregateResult = mergeChunkResultsManually(chunkResults)

\* C19: with exactly one chunk result, aggregateChunkResults returns that
\* chunk's three lists as they are, with the fixed summary, and sends no
\* request to the oracle.
C19_SingleChunkReturnedAsIs ==
    Len(chunkResults) = 1 =>
        /\ promptsSent = 0
        /\ aggregatePc \in {"input", "resolved"}
        /\ ~viaFallback
        /\ aggregatePc = "resolved" =>
              /\ SameLists(aggregateResult, chunkResults[1])
              /\ aggregateResult.summary = "Single chunk analysis completed."

\* The single chunk returned holds a repeated string, which a merge would
\* have dropped.
C19_Witness ==
    /\ Len(chunkResults) = 1
    /\ aggregatePc = "resolved"
    /\ chunkResults[1].patterns = <<"disk full", "disk full", "db down">>
    /\ aggregateResult.patterns = <<"disk full", "disk full", "db down">>
    /\ promptsSent = 0

(***************************************************************************)
(* Properties of the similarity fallback                                   *)
(***************************************************************************)
\* The files whose list `field` holds the item, compared without regard to
\* case.
FilesHolding(field, item) ==
    {i \in 1..Len(fileResults) :
        \E k \in 1..Len(fileResults[i].analysis[field]) :
            ToLowerCase(fileResults[i].analysis[field][k]) = ToLowerCase(item)}

\* The items of the list `field` of all the files.
ItemsOfFiles(field) ==
    UNION {{fileResults[i].analysis[field][k] :
                k \in 1..Len(fileResults[i].analysis[field])} :
           i \in 1..Len(fileResults)}

\* The item is in the list, compared without regard to case.
IsShared(list, item) ==
    \E k \in 1..Len(list) : ToLowerCase(list[k]) = ToLowerCase(item)

\* C20: the similarity fallback reports an item as shared exactly when it
\* occurs, compared without regard to case, in the corresponding list of at
\* least two different files (an item repeated within one file's list only
\* is not shared), and it reports no correlations.
C20_SharedMeansTwoFiles ==
    (similarPc = "resolved" /\ similarVia = "fallback") =>
        /\ \A item \in ItemsOfFiles("patterns") :
              IsShared(similarityResult.sharedPatterns, item)
                  <=> Cardinality(FilesHolding("patterns", item)) >= 2
        /\ \A item \in ItemsOfFiles("anomalies") :
              IsShared(similarityResult.sharedAnomalies, item)
                  <=> Cardinality(FilesHolding("anomalies", item)) >= 2
        /\ \A item \in ItemsOfFiles("rootCauses") :
              IsShared(similarityResult.sharedRootCauses, item)
                  <=> Cardinality(FilesHolding("rootCauses", item)) >= 2
        /\ similarityResult.correlations = <<>>

(***************************************************************************)
(* Further properties of the chunk splitter                                *)
(***************************************************************************)
\* The number of lines a chunk's line range covers.
LinesCovered(c) == c.lineRange.end - c.lineRange.start + 1

\* C23: empty input yields zero chunks: when the text that is split on
\* line-feed and handed to splitIntoChunks is empty, no chunk is emitted;
\* for a non-empty text at least one chunk is emitted, and no emitted chunk
\* has zero lines.
C23_EmptyInputNoChunks ==
    splitPc = "done" =>
        /\ content = "" => Len(chunks) = 0
        /\ content # "" => Len(chunks) >= 1
        /\ \A i \in 1..Len(chunks) : LinesCovered(chunks[i]) >= 1

(***************************************************************************)
(* Further properties of the exact-line matcher                            *)
(***************************************************************************)
\* The keyword stands in the line as a word, in any case.
HasKeyword(line, keyword) ==
    \E i \in 1..Len(line) :
        /\ HasAt(line, i, keyword)
        /\ ~CharIn(line, i - 1, WordChars)
        /\ ~CharIn(line, i + Len(keyword), WordChars)

HasAnyKeyword(line, keywords) == \E keyword \in keywords : HasKeyword(line, keyword)

\* The category by the priority order error, warning, info, debug, other.
CategoryByPriority(line) ==
    CASE HasAnyKeyword(line, {"error", "failed", "exception", "crash", "fatal"}) -> "error"
      [] /\ ~HasAnyKeyword(line, {"error", "failed", "exception", "crash", "fatal"})
         /\ HasAnyKeyword(line, {"warn", "warning", "caution"}) -> "warning"
      [] /\ ~HasAnyKeyword(line, {"error", "failed", "exception", "crash", "fatal",
                                 "warn", "warning", "caution"})
         /\ HasKeyword(line, "info") -> "info"
      [] /\ ~HasAnyKeyword(line, {"error", "failed", "exception", "crash", "fatal",
                                 "warn", "warning", "caution", "info"})
         /\ HasAnyKeyword(line, {"debug", "trace", "verbose"}) -> "debug"
      [] OTHER -> "other"

\* C24: the category of every reported match is the category of its
\* canonical line, the first-seen original line of its group, by keyword in
\* the priority order error, warning, info, debug, other; a line with an
\* error keyword and a warning keyword is an error.
C24_CategoryByPriority ==
    matchPc = "done" =>
        LET keys  == KeysFrom(1)
            lines == MatchLinesFrom(1)
        IN  \A k \in 1..Len(exactMatches) :
                LET m == exactMatches[k]
                IN  /\ m.line = FirstLineWith(keys, lines, KeyOfLine(m.line))
                    /\ m.category = CategoryByPriority(m.line)

\* Matches of all five categories are reported, among them a line with a
\* warning keyword and an error keyword, and a line whose only keyword-like
\* text is inside a longer word.
C24_Witness ==
    /\ matchPc = "done"
    /\ {exactMatches[k].category : k \in 1..Len(exactMatches)}
          = {"error", "warning", "info", "debug", "other"}
    /\ \E k \in 1..Len(exactMatches) :
          /\ exactMatches[k].line = "WARN retry failed again"
          /\ exactMatches[k].category = "error"
    /\ \E k \in 1..Len(exactMatches) :
          /\ exactMatches[k].line = "information for users"
          /\ exactMatches[k].category = "other"

(***************************************************************************)
(* Further properties of the list extraction                               *)
(***************************************************************************)
\* The text a content line carries: the entry text of a bullet or numbered
\* entry, the phrase of a bold header, the trimmed line otherwise.
ContentOf(line) ==
    LET trimmed == Trim(line)
    IN  IF EntryText(line) # "" THEN EntryText(line)
        ELSE IF IsBoldHeader(line)
        THEN SubSeq(trimmed, 3, 2 + First({k \in 1..Len(trimmed) :
                                            Includes(Drop(trimmed, 3 + k), "**")
                                                => StartsWith(Drop(trimmed, 3 + k), "**")}))
        ELSE trimmed

\* A line that is neither blank nor a heading.
IsContentLine(line) == ~IsBlank(line) /\ ~StartsWith(Trim(line), "#")

\* C28: no content line is lost: the text of every line that is neither
\* blank nor starts with "#" appears in some item collected before the
\* placeholder filter, a bare line that follows an open item included.
C28_NoContentLineLost ==
    extractPc = "done" =>
        \A i \in 1..Len(BodyLines) :
            IsContentLine(BodyLines[i]) =>
                \E k \in 1..Len(CollectedItems(sectionText)) :
                    Includes(CollectedItems(sectionText)[k], ContentOf(BodyLines[i]))


\* C29: files are counted by input entry: when the groups that occur in two
\* input entries or more are at least 2 and at most 50, each of them is
\* reported, with one occurrence record for each entry that holds the line,
\* also when two of these entries carry the same filename.
C29_FilesCountedByEntry ==
    matchPc = "done" =>
        LET keys       == KeysFrom(1)
            qualifying == QualifyingKeys(keys)
        IN  ( /\ Cardinality(qualifying) >= MinMatches
              /\ Cardinality(qualifying) <= MaxMatches )
            => \A key \in qualifying :
                  \E k \in 1..Len(exactMatches) :
                      /\ KeyOfLine(exactMatches[k].line) = key
                      /\ Len(exactMatches[k].occurrences)
                            = Cardinality(FilesWith(keys, key))

(***************************************************************************)
(* Further properties of the worker pool                                   *)
(***************************************************************************)
\* The workers that claimed the 0-indexed chunk i.
ClaimersOf(i) == {c \in claimed : c[2] = i}

\* C25: for every parallelChunks the constructor accepts, zero and negative
\* numbers included, and one chunk or more: when aggregateChunkResults is
\* invoked, every chunk index was claimed by exactly one worker, hence its
\* request issued once, and all the chunk results are present.
C25_AnyParallelChunks ==
    (mode = "file" /\ callerPc \in {"aggregating", "returned"} /\ Len(chunks) >= 1) =>
        /\ \A i \in 0..(Len(chunks) - 1) : Cardinality(ClaimersOf(i)) = 1
        /\ \A a \in 1..Len(aggregateArgs) :
              /\ Len(aggregateArgs[a]) = Len(chunks)
              /\ \A i \in 1..Len(chunks) : aggregateArgs[a][i] # Hole

\* A request of this analysis has rejected.
SomeChunkRejected == \E i \in DOMAIN responses : responses[i].kind = "reject"

\* C26: once the request of a chunk has rejected during the parallel chunk
\* analysis, no worker claims a further chunk index, no further request is
\* issued and no further progress event is emitted (completedChunks, counted
\* right before each progress event of the pool, stays as it is).
C26_NothingAfterRejection ==
    [][ (mode = "file" /\ SomeChunkRejected) =>
            /\ claimed' = claimed
            /\ calls' \subseteq calls
            /\ completedChunks' = completedChunks ]_vars

(***************************************************************************)
(* Properties of the streamed exchanges                                    *)
(***************************************************************************)
\* C21: in analyzeLogContent the section parser is invoked only after the
\* terminal response has arrived, once, and on the content of that terminal
\* response; the text accumulated from the streamed deltas is never parsed.
C21_ParseTerminalResponseOnly ==
    \A e \in DOMAIN exchangePc :
        /\ terminalResponse[e].kind = "none" => parserCalls[e] = <<>>
        /\ exchangePc[e] = "failed" => parserCalls[e] = <<>>
        /\ exchangePc[e] = "returned" =>
              /\ terminalResponse[e].kind = "resolve"
              /\ parserCalls[e] = << terminalResponse[e].content >>

\* A call has returned whose handler accumulated a text that is not the
\* content of the terminal response.
C21_Witness ==
    \E e \in DOMAIN exchangePc :
        /\ exchangePc[e] = "returned"
        /\ fullResponse[e] # ""
        /\ fullResponse[e] # terminalResponse[e].content
        /\ parserCalls[e] = << terminalResponse[e].content >>

\* The message deltas streamed for the exchange of call e among the first n
\* deltas, joined.
RECURSIVE TextStreamedFor(_, _)
TextStreamedFor(e, n) ==
    IF n = 0 THEN ""
    ELSE TextStreamedFor(e, n - 1) \o
            (IF deltasSent[n].exchange = e /\ deltasSent[n].type = "assistant.message_delta"
             THEN deltasSent[n].deltaContent ELSE "")

\* C27: during the parallel chunk analysis on the shared session every
\* streamed delta is emitted as a 'streaming' event exactly once, and the
\* fullText of a 'streaming' event is the concatenation of the deltas of the
\* exchange of one chunk only.
C27_StreamingPerExchange ==
    /\ \A n \in 1..Len(deltasSent) :
          Cardinality({k \in 1..Len(streamingEvents) :
                          streamingEvents[k].deltaIndex = n}) = 1
    /\ \A k \in 1..Len(streamingEvents) :
          \E e \in DOMAIN exchangePc :
              streamingEvents[k].fullText = TextStreamedFor(e, streamingEvents[k].deltaIndex)

(***************************************************************************)
(* Properties of the session and the analysis calls                        *)
(***************************************************************************)
\* C22: each of the public analysis operations analyzeLogFile,
\* analyzeLogFileInChunks, analyzeLogContent, analyzeLogBuffer,
\* analyzeMultipleLogFiles and analyzeMultipleBuffers, called while no
\* session exists (initialize() has not completed, or cleanup() has), fails
\* with the not-initialized error and sends no request to the oracle.
C22_NoSessionNoRequest ==
    (callOutcome # "none" /\ ~hadSession) =>
        /\ callOp \in Operations
        /\ callOutcome = "not initialized"
        /\ requestsSent = 0

\* analyzeLogBuffer, which has no test of its own, was called after
\* cleanup() and failed with the not-initialized error.
C22_Witness ==
    /\ clientPc = "stopped"
    /\ callOp = "analyzeLogBuffer"
    /\ ~hadSession
    /\ callOutcome = "not initialized"
    /\ requestsSent = 0
    /\ progressEvents # <<>>

\* The positions of the 'complete' events of the call.
CompleteEvents == {k \in 1..Len(progressEvents) : progressEvents[k].stage = "complete"}

TopLevelCalls ==
    {"analyzeLogFile", "analyzeLogBuffer", "analyzeMultipleLogFiles", "analyzeMultipleBuffers"}

\* C30: in every successful call of analyzeLogFile, analyzeLogBuffer,
\* analyzeMultipleLogFiles or analyzeMultipleBuffers exactly one progress
\* event of stage 'complete' is emitted, it carries progress 100, and no
\* progress event is emitted after it within the call.
C30_OneCompleteEventLast ==
    (callOutcome = "returned" /\ callOp \in TopLevelCalls) =>
        /\ CompleteEvents = {Len(progressEvents)}
        /\ progressEvents[Len(progressEvents)].progress = 100

====
